---- MODULE Spec2Model ----
(***************************************************************************)
(* Model of the MX2 inverter driver (src/mx2): the CRC-16 frame codec, the *)
(* Coil / Register entity tables, the request/response engine of class MX2 *)
(* and its high-level operations.                                          *)
(*                                                                         *)
(* Bytes are integers 0..255 and byte strings are sequences of them.       *)
(* Python integers that may leave the 31-bit range of the model checker    *)
(* (register values up to 2^32 and beyond) are kept as two base-65536      *)
(* limbs [hi, lo] with value hi * 65536 + lo and lo in 0..65535.           *)
(***************************************************************************)
EXTENDS Integers, Sequences, FiniteSets, TLC

VARIABLES
    dev_id,          \* MX2._dev_id
    is_open,         \* MX2._ser.is_open
    now,             \* the clock read by time()
    last_req_time,   \* MX2._last_req_time
    rx,              \* bytes waiting in the transport's receive buffer
    pc,              \* position of the caller: "idle", "wait", "done"
    call,            \* the operation in progress or just finished, with its arguments
    sent,            \* arguments (command, data) of the _send calls of this call
    tx,              \* frames handed to _ser.write during this call
    nreads,          \* number of _ser.read calls during this call
    response,        \* what _read returned to this call (<<>> stands for None)
    result,          \* how the call ended: exception class, message tag, returned value
    crc_data,        \* codec harness: the byte string given to crc16
    crc_sum,         \* codec harness: the checksum crc16 returned
    crc_stage,       \* codec harness: "payload", "summed", "framed"
    latency_time,    \* MX2._latency_time, in ms
    baudrate,        \* MX2._ser.baudrate
    wait_time,       \* MX2._wait_time, in s, as the fraction num / den
    pure_call,       \* entity harness: the method applied and its arguments
    pure_result      \* entity harness: what the method returned or raised

vars == << dev_id, is_open, now, last_req_time, rx, pc, call, sent, tx, nreads,
           response, result, crc_data, crc_sum, crc_stage, latency_time,
           baudrate, wait_time, pure_call, pure_result >>

engine_vars == << dev_id, is_open, now, last_req_time, rx, pc, call, sent, tx,
                  nreads, response, result >>

codec_vars == << crc_data, crc_sum, crc_stage >>

config_vars == << latency_time, baudrate, wait_time >>

pure_vars == << pure_call, pure_result >>

(***************************************************************************)
(* Bounds of the model.                                                    *)
(***************************************************************************)
MaxCrcLen == 3      \* longest sampled byte string of the codec harness
MaxTime == 3        \* the clock stops here

(***************************************************************************)
(* Entity tables (src/mx2/enums.py), canonical members in declaration      *)
(* order; registers are <<address, n_words>>.  Aliases (D001, ...) are not *)
(* members of _member_names_ and do not take part in next().               *)
(***************************************************************************)
Coil ==
    << 1, 2, 3, 4, 7, 8, 9, 10, 11, 12, 13, 15, 16, 17, 19, 20, 21, 22, 23,
       24, 25, 26, 28, 29, 30, 31, 32, 38, 39, 40, 41, 42, 43, 44, 45, 46,
       47, 50, 51, 52, 53, 54, 58, 59, 60, 61, 62, 63, 64, 65, 69, 70, 71,
       72, 73, 74, 75, 76, 77, 78, 80, 81, 83, 84, 85, 86, 88 >>

ModbusRegisters ==
    << <<3, 1>>, <<4, 1>>, <<5, 1>>, <<6, 1>>, <<2304, 1>>, <<2306, 1>> >>

MonitoringFunctions ==
    << <<4097, 2>>, <<4099, 1>>, <<4100, 1>>, <<4101, 2>>, <<4103, 1>>,
       <<4104, 1>>, <<4105, 2>>, <<4107, 2>>, <<4109, 1>>, <<4110, 1>>,
       <<4112, 1>>, <<4113, 1>>, <<4114, 1>>, <<4115, 2>>, <<4117, 2>>,
       <<4119, 2>>, <<4121, 1>>, <<4125, 1>>, <<4126, 1>>, <<4127, 1>>,
       <<4142, 2>>, <<4144, 2>>, <<4146, 2>>, <<4150, 2>>, <<4152, 2>>,
       <<4183, 1>>, <<4185, 1>>, <<4186, 1>>, <<17, 1>>, <<18, 1>>,
       <<19, 1>>, <<20, 2>>, <<22, 1>>, <<23, 1>>, <<24, 2>>, <<26, 2>>,
       <<28, 1>>, <<29, 1>>, <<30, 2>>, <<32, 1>>, <<33, 1>>, <<34, 2>>,
       <<36, 2>>, <<38, 1>>, <<39, 1>>, <<40, 2>>, <<42, 1>>, <<43, 1>>,
       <<44, 2>>, <<46, 2>>, <<48, 1>>, <<49, 1>>, <<50, 2>>, <<52, 1>>,
       <<53, 1>>, <<54, 2>>, <<56, 2>>, <<58, 1>>, <<59, 1>>, <<60, 2>>,
       <<62, 1>>, <<63, 1>>, <<64, 2>>, <<66, 2>>, <<68, 1>>, <<69, 1>>,
       <<70, 2>>, <<72, 1>>, <<73, 1>>, <<74, 2>>, <<76, 2>>, <<78, 1>>,
       <<4134, 1>>, <<4135, 1>>, <<4136, 1>>, <<4257, 1>>, <<4258, 1>>,
       <<4260, 1>>, <<4262, 1>>, <<4264, 1>> >>

MainProfileParameters ==
    << <<1, 2>>, <<4355, 2>>, <<4357, 2>>, <<4359, 1>>, <<8451, 2>>,
       <<8453, 2>> >>


(***************************************************************************)
(* Bit operations on non-negative integers.                                *)
(***************************************************************************)
\* a ^ b, bit by bit
RECURSIVE xor_bits(_, _)
xor_bits(a, b) == IF a = 0 THEN b ELSE IF b = 0 THEN a
                  ELSE (((a % 2) + (b % 2)) % 2) + 2 * xor_bits(a \div 2, b \div 2)

\* a ^ b for two hexadecimal digits
xor_digits == [a \in 0..15, b \in 0..15 |-> xor_bits(a, b)]

\* a ^ b, four bits at a time
RECURSIVE Xor(_, _)
Xor(a, b) == IF a = 0 THEN b ELSE IF b = 0 THEN a
             ELSE xor_digits[a % 16, b % 16] + 16 * Xor(a \div 16, b \div 16)

Hi(v) == v \div 256      \* v >> 8
Lo(v) == v % 256         \* v & 0xff

(***************************************************************************)
(* crc16 (src/mx2/__init__.py:25-45).                                      *)
(***************************************************************************)
crc_init == 65535        \* crc = 0xffff
poly == 40961            \* poly = 0xA001

\* one pass of the inner loop body: if crc & 1: crc = (crc >> 1) ^ poly else crc >>= 1
crc_shifted == [crc \in Int |-> IF crc % 2 = 1 THEN Xor(crc \div 2, poly) ELSE crc \div 2]

\* the pass on the value of its argument
crc_shift(crc) == crc_shifted[crc]

\* for i in range(8): ...
RECURSIVE crc_bits(_, _)
crc_bits(crc, i) == IF i = 0 THEN crc ELSE crc_shift(crc_bits(crc, i - 1))

\* one pass of the outer loop body: crc ^= b, then the eight shifts
crc_pass == [crc \in Int, b \in Int |-> crc_bits(Xor(crc, b), 8)]

\* the pass on the values of its two arguments
crc_byte(crc, b) == crc_pass[crc, b]

\* for b in data[lo..hi], left to right, from register value crc.  The index
\* range is folded by halves (the result is the left-to-right fold) so that
\* the evaluation depth stays logarithmic in the frame length.
crc_fold[crc \in Int, data \in Seq(Int), lo \in Int, hi \in Int] ==
    IF crc < 0 \/ lo > hi THEN crc
    ELSE IF lo = hi THEN crc_byte(crc, data[lo])
    ELSE LET mid == (lo + hi) \div 2
         IN crc_fold[crc_fold[crc, data, lo, mid], data, mid + 1, hi]

\* the fold on the values of its arguments
crc_range(crc, data, lo, hi) == crc_fold[crc, data, lo, hi]

\* crc.to_bytes(2, "big"): the byte order a slip in crc16 would produce
to_bytes_big(crc) == << crc \div 256, crc % 256 >>

\* crc.to_bytes(2, "little")
to_bytes_little(crc) == << crc % 256, crc \div 256 >>

crc16(data) == to_bytes_little(crc_range(crc_init, data, 1, Len(data)))

(***************************************************************************)
(* Python values.                                                          *)
(***************************************************************************)
None == << >>

\* a big integer hi * 65536 + lo
BigInt(hi, lo) == [hi |-> hi, lo |-> lo]

\* bytes([...]) raises ValueError unless every item is in range(0, 256)
InByte(x) == 0 <= x /\ x <= 255

Min(a, b) == IF a <= b THEN a ELSE b

\* data[i:j] for 0 <= i (Python's 0-based, end-exclusive slice, clamped)
Slice(data, i, j) == SubSeq(data, i + 1, Min(j, Len(data)))

(***************************************************************************)
(* FunctionCode and ExceptionCode (src/mx2/enums.py:12-33).                *)
(***************************************************************************)
ReadCoilStatus == 1
ReadHoldingRegister == 3
WriteInCoil == 5
WriteInHoldingRegister == 6
LoopbackTest == 8
WriteInMultipleCoils == 15
WriteInRegisters == 16
ReadWriteRegisters == 23

FunctionNotSupported == 1
FunctionNotFound == 2
InvalidDataFormat == 3
OutOfBounds == 33
FunctionNotAvailable == 34
ReadOnlyTarget == 35

(***************************************************************************)
(* Coil (src/mx2/enums.py:36-123).  A coil argument is                     *)
(* [enum |-> TRUE, v |-> address] for a Coil member and                    *)
(* [enum |-> FALSE, v |-> n] for a plain integer.                          *)
(***************************************************************************)
CoilMember(a) == [enum |-> TRUE, v |-> a]
PlainInt(n) == [enum |-> FALSE, v |-> n]

\* self._member_names_.index(self.name), 1-based here
coil_index(c) == CHOOSE i \in 1..Len(Coil) : Coil[i] = c.v

\* Coil.next(self, n_items)
coil_next(c, n_items) ==
    IF n_items = 0 THEN << c >>
    ELSE LET i_start == coil_index(c) + 1
             i_end == Min(Len(Coil) + 1, i_start + n_items)
         IN [i \in 1..(i_end - i_start) |-> CoilMember(Coil[i_start + i - 1])]

\* Coil.contains(value): the member, or None
coil_contains(value) ==
    IF \E i \in 1..Len(Coil) : Coil[i] = value THEN CoilMember(value) ELSE None

(***************************************************************************)
(* How a call ends.                                                        *)
(***************************************************************************)
Raise(exc, msg) == [exc |-> exc, msg |-> msg, value |-> None]
Return(value) == [exc |-> "", msg |-> "", value |-> value]
Pending == [exc |-> "", msg |-> "pending", value |-> None]

(***************************************************************************)
(* MX2._send (src/mx2/__init__.py:266-282): the frame written.             *)
(***************************************************************************)
\* a frame whose checksum leaves out the device id and the function code
request_sum_of_data(id, command, data) == << id, command >> \o data \o crc16(data)

request(id, command, data) ==
    LET head == << id, command >> \o data IN head \o crc16(head)

(***************************************************************************)
(* MX2.__check_validity (src/mx2/__init__.py:312-355).                     *)
(***************************************************************************)
exception_reply(code) ==
    IF code = FunctionNotSupported THEN Raise("FunctionNotSupportedException", "Function not supported.")
    ELSE IF code = FunctionNotFound THEN Raise("FunctionNotFoundException", "Function not found.")
    ELSE IF code = FunctionNotAvailable THEN Raise("FunctionNotAvailableException", "Function not available.")
    ELSE IF code = OutOfBounds THEN Raise("OutOfBoundsException", "Target address out of bounds.")
    ELSE IF code = InvalidDataFormat THEN Raise("InvalidDataFormatException", "Invalid data format.")
    ELSE IF code = ReadOnlyTarget THEN Raise("ReadOnlyTargetException", "Target is read-only.")
    ELSE Raise("MX2Exception", "Unknown exception.")

\* the checks with the checksum looked at before the device id
check_validity_crc_first(id, command, data) ==
    IF data = None THEN Raise("NoResponseException", "No data.")
    ELSE IF crc16(data) # << 0, 0 >> THEN Raise("CRCException", "Bad CRC.")
    ELSE IF data[1] # id
        THEN Raise("BadResponseException", "Data issued for incorrect device ID.")
    ELSE IF data[2] # command
        THEN IF data[2] = command + 128 THEN exception_reply(data[3])
             ELSE Raise("BadResponseException", "Data issued for incorrect function code.")
    ELSE Return(None)

\* the check raising BadRequestException for another function's reply
check_validity_bad_request(id, command, data) ==
    IF data = None THEN Raise("NoResponseException", "No data.")
    ELSE IF data[1] # id
        THEN Raise("BadResponseException", "Data issued for incorrect device ID.")
    ELSE IF crc16(data) # << 0, 0 >> THEN Raise("CRCException", "Bad CRC.")
    ELSE IF Len(data) < 2 THEN Raise("IndexError", "index out of range")
    ELSE IF data[2] # command
        THEN IF data[2] = command + 128
                THEN IF Len(data) < 3 THEN Raise("IndexError", "index out of range")
                     ELSE exception_reply(data[3])
                ELSE Raise("BadRequestException", "Data issued for incorrect function code.")
    ELSE Return(None)

check_validity(id, command, data) ==
    IF data = None THEN Raise("NoResponseException", "No data.")
    ELSE IF data[1] # id
        THEN Raise("BadResponseException", "Data issued for incorrect device ID.")
    ELSE IF crc16(data) # << 0, 0 >> THEN Raise("CRCException", "Bad CRC.")
    ELSE IF Len(data) < 2 THEN Raise("IndexError", "index out of range")
    ELSE IF data[2] # command
        THEN IF data[2] = command + 128
                THEN IF Len(data) < 3 THEN Raise("IndexError", "index out of range")
                     ELSE exception_reply(data[3])
                ELSE Raise("BadResponseException", "Data issued for incorrect function code.")
    ELSE Return(None)

(***************************************************************************)
(* Inputs the callers and the device are drawn from.                       *)
(***************************************************************************)
WaitTicks == 2           \* MX2._wait_time, in clock ticks

DeviceIds == {-10, 0, 1, 8, 248, 249, 250, 254, 255}

CoilArgs == {PlainInt(0), PlainInt(1), PlainInt(89)}
            \cup {CoilMember(a) : a \in {1, 7, 13, 73, 85, 86, 88}}

CoilCounts == {0, 1, 2, 5, 8, 9, 31, 32}

(***************************************************************************)
(* The state after MX2() was constructed (src/mx2/__init__.py:59-76).      *)
(***************************************************************************)
NoCall == [op |-> "none"]

\* latency/1000.0 + 11*3.5/baud_rate, in s, as an exact fraction:
\* (2*baud_rate*latency + 77000) / (2000*baud_rate)
quiet_period(latency, baud_rate) ==
    [num |-> 2 * baud_rate * latency + 77000, den |-> 2000 * baud_rate]

Init ==
    /\ dev_id = 1
    /\ is_open = FALSE
    /\ now = 0
    /\ last_req_time = 0
    /\ rx = << >>
    /\ pc = "idle"
    /\ call = NoCall
    /\ sent = << >>
    /\ tx = << >>
    /\ nreads = 0
    /\ response = None
    /\ result = Pending
    /\ crc_data = << >>
    /\ crc_sum = << >>
    /\ crc_stage = "off"
    /\ latency_time = 30
    /\ baudrate = 9600
    /\ wait_time = quiet_period(30, 9600)
    /\ pure_call = NoCall
    /\ pure_result = Pending

\* a caller may start an operation; the clock bound leaves room for its wait
CanCall == pc = "idle" /\ now + WaitTicks <= MaxTime

(***************************************************************************)
(* The two ways a call proceeds from its first half.                       *)
(***************************************************************************)
\* an exception leaves the call before anything was sent
Fail(args, r) ==
    /\ call' = args
    /\ result' = r
    /\ pc' = "done"
    /\ sent' = << >>
    /\ tx' = << >>
    /\ nreads' = 0
    /\ response' = None
    /\ UNCHANGED << dev_id, is_open, now, last_req_time, rx >>
    /\ UNCHANGED << codec_vars, config_vars, pure_vars >>

\* self._send(command, data), then either return (awaits = FALSE) or go on
\* to self._wait() and self._read()            (src/mx2/__init__.py:266-282)
send(args, command, data, awaits) ==
    IF ~is_open
    THEN Fail(args, Raise("SerialException", "Serial port not open."))
    ELSE /\ call' = args
         /\ sent' = << [command |-> command, data |-> data] >>
         /\ tx' = << request(dev_id, command, data) >>
         /\ last_req_time' = now
         /\ nreads' = 0
         /\ response' = None
         /\ pc' = IF awaits THEN "wait" ELSE "done"
         /\ result' = IF awaits THEN Pending ELSE Return(None)
         /\ UNCHANGED << dev_id, is_open, now, rx >>
         /\ UNCHANGED << codec_vars, config_vars, pure_vars >>

(***************************************************************************)
(* MX2.open and MX2.close (src/mx2/__init__.py:192-218).  The serial       *)
(* driver may refuse, which leaves the port as it was.                     *)
(***************************************************************************)
open ==
    /\ pc = "idle"
    /\ IF is_open
       THEN Fail([op |-> "open"], Raise("SerialException", "Connection is already open."))
       ELSE \/ Fail([op |-> "open"], Raise("SerialException", "Couldn't open serial connection."))
            \/ /\ is_open' = TRUE
               /\ call' = [op |-> "open"]
               /\ result' = Return(None)
               /\ pc' = "done"
               /\ sent' = << >>
               /\ tx' = << >>
               /\ nreads' = 0
               /\ response' = None
               /\ UNCHANGED << dev_id, now, last_req_time, rx >>
               /\ UNCHANGED << codec_vars, config_vars, pure_vars >>

close ==
    /\ pc = "idle"
    /\ IF ~is_open
       THEN Fail([op |-> "close"], Raise("SerialException", "Connection is not open."))
       ELSE \/ Fail([op |-> "close"], Raise("SerialException", "Couldn't close serial connection."))
            \/ /\ is_open' = FALSE
               /\ call' = [op |-> "close"]
               /\ result' = Return(None)
               /\ pc' = "done"
               /\ sent' = << >>
               /\ tx' = << >>
               /\ nreads' = 0
               /\ response' = None
               /\ UNCHANGED << dev_id, now, last_req_time, rx >>
               /\ UNCHANGED << codec_vars, config_vars, pure_vars >>

(***************************************************************************)
(* MX2.set_device_id (src/mx2/__init__.py:251-261).                        *)
(***************************************************************************)
\* the operation taking 248 for a single device's address
set_device_id_up_to_248(id) ==
    /\ pc = "idle"
    /\ IF (id > 0 /\ id < 249) \/ id \in {250, 251, 252, 253, 254}
       THEN /\ dev_id' = id
            /\ call' = [op |-> "set_device_id", dev_id |-> id]
            /\ result' = Return(None)
            /\ pc' = "done"
            /\ sent' = << >>
            /\ tx' = << >>
            /\ nreads' = 0
            /\ response' = None
            /\ UNCHANGED << is_open, now, last_req_time, rx >>
            /\ UNCHANGED << codec_vars, config_vars, pure_vars >>
       ELSE Fail([op |-> "set_device_id", dev_id |-> id],
                 Raise("BadParameterException", "Device ID can be between 1 and 247 or 250 and 254."))

set_device_id(id) ==
    /\ pc = "idle"
    /\ IF (id > 0 /\ id < 248) \/ id \in {250, 251, 252, 253, 254}
       THEN /\ dev_id' = id
            /\ call' = [op |-> "set_device_id", dev_id |-> id]
            /\ result' = Return(None)
            /\ pc' = "done"
            /\ sent' = << >>
            /\ tx' = << >>
            /\ nreads' = 0
            /\ response' = None
            /\ UNCHANGED << is_open, now, last_req_time, rx >>
            /\ UNCHANGED << codec_vars, config_vars, pure_vars >>
       ELSE Fail([op |-> "set_device_id", dev_id |-> id],
                 Raise("BadParameterException", "Device ID can be between 1 and 247 or 250 and 254."))

(***************************************************************************)
(* MX2.set_baud_rate (src/mx2/__init__.py:113-131) and                     *)
(* MX2.set_latency_time (src/mx2/__init__.py:230-239).                     *)
(***************************************************************************)
BaudRates == {2400, 4800, 9600, 19200, 38400, 57600, 76800, 115200}

BaudRateArgs == BaudRates \cup {0, 14400}

LatencyTimeArgs == {-100, -1, 0, 30, 1000, 1001, 1100}

\* a call that assigns some of the configuration and returns None
configure(args, latency, baud_rate, delay) ==
    /\ latency_time' = latency
    /\ baudrate' = baud_rate
    /\ wait_time' = delay
    /\ call' = args
    /\ result' = Return(None)
    /\ pc' = "done"
    /\ sent' = << >>
    /\ tx' = << >>
    /\ nreads' = 0
    /\ response' = None
    /\ UNCHANGED << dev_id, is_open, now, last_req_time, rx >>
    /\ UNCHANGED << codec_vars, pure_vars >>

\* the operation leaving _wait_time as it was
set_baud_rate_keeping_wait_time(baud_rate) ==
    /\ pc = "idle"
    /\ LET args == [op |-> "set_baud_rate", baud_rate |-> baud_rate]
       IN IF is_open
          THEN Fail(args, Raise("SerialException", "Connection is currently open."))
          ELSE IF baud_rate \in BaudRates
               THEN configure(args, latency_time, baud_rate, wait_time)
               ELSE Fail(args, Raise("BadParameterException", "Invalid baud rate."))

set_baud_rate(baud_rate) ==
    /\ pc = "idle"
    /\ LET args == [op |-> "set_baud_rate", baud_rate |-> baud_rate]
       IN IF is_open
          THEN Fail(args, Raise("SerialException", "Connection is currently open."))
          ELSE IF baud_rate \in BaudRates
               THEN configure(args, latency_time, baud_rate,
                              quiet_period(latency_time, baud_rate))
               ELSE Fail(args, Raise("BadParameterException", "Invalid baud rate."))

set_latency_time(latency) ==
    /\ pc = "idle"
    /\ LET args == [op |-> "set_latency_time", latency_time |-> latency]
       IN IF latency >= 0 /\ latency <= 1000
          THEN configure(args, latency, baudrate, quiet_period(latency, baudrate))
          ELSE Fail(args, Raise("BadParameterException",
                                "Latency can be between 0 and 1000 ms."))

(***************************************************************************)
(* MX2.read_coil_status (src/mx2/__init__.py:358-409).                     *)
(***************************************************************************)
\* the operation with the argument checks ahead of the broadcast check
read_coil_status_bounds_first(start_address, coil_count) ==
    /\ CanCall
    /\ LET args == [op |-> "read_coil_status", start_address |-> start_address,
                    coil_count |-> coil_count]
       IN IF start_address.v < 1 \/ start_address.v > 88
          THEN Fail(args, Raise("BadParameterException", "Start address out of range (must be between 1 and 0x58)."))
          ELSE IF coil_count <= 0 \/ coil_count > 31
          THEN Fail(args, Raise("BadParameterException", "Invalid coil count (must be between 1 and 31)."))
          ELSE IF dev_id > 249
          THEN Fail(args, Raise("BadRequestException", "Cannot broadcast a read command."))
          ELSE send(args, ReadCoilStatus, << 0, start_address.v - 1, 0, coil_count >>, TRUE)

read_coil_status(start_address, coil_count) ==
    /\ CanCall
    /\ LET args == [op |-> "read_coil_status", start_address |-> start_address,
                    coil_count |-> coil_count]
       IN IF dev_id > 249
          THEN Fail(args, Raise("BadRequestException", "Cannot broadcast a read command."))
          ELSE IF start_address.v < 1 \/ start_address.v > 88
          THEN Fail(args, Raise("BadParameterException", "Start address out of range (must be between 1 and 0x58)."))
          ELSE IF coil_count <= 0 \/ coil_count > 31
          THEN Fail(args, Raise("BadParameterException", "Invalid coil count (must be between 1 and 31)."))
          ELSE send(args, ReadCoilStatus, << 0, start_address.v - 1, 0, coil_count >>, TRUE)

\* "{:08b}".format(v)[::-1], as booleans: the bits of v, least significant first
bits_lsb_first(v) == [i \in 1..8 |-> (v \div (2 ^ (i - 1))) % 2 = 1]

\* the data bytes taken from the lowest index up
RECURSIVE coil_bits_ascending(_, _)
coil_bits_ascending(resp, i) ==
    IF i <= 3 THEN << >>
    ELSE coil_bits_ascending(resp, i - 1) \o bits_lsb_first(resp[i])

\* for v in response[3+response[2]-1:2:-1]: result += bits of v
RECURSIVE coil_bits(_, _)
coil_bits(resp, i) ==
    IF i <= 3 THEN << >>
    ELSE bits_lsb_first(resp[i]) \o coil_bits(resp, i - 1)

\* the pairing loop of lines 399-408, from bit k on
RECURSIVE pair_coils(_, _, _, _, _)
pair_coils(bits, k, addr, values, coil_count) ==
    IF k > Len(bits) THEN Return(values)
    ELSE IF ~addr.enum THEN Raise("AttributeError", "'int' object has no attribute 'value'")
    ELSE IF coil_contains(addr.v) = None
         THEN pair_coils(bits, k + 1, addr, values, coil_count)
    ELSE LET appended == Append(values, [coil |-> addr.v, value |-> bits[k]])
             following == coil_next(addr, 1)
         IN IF following = << >> THEN Raise("IndexError", "list index out of range")
            ELSE IF Len(appended) = coil_count THEN Return(appended)
            ELSE pair_coils(bits, k + 1, following[1], appended, coil_count)

read_coil_status_response(args, id, resp) ==
    LET valid == check_validity(id, ReadCoilStatus, resp)
    IN IF valid.exc # "" THEN valid
       ELSE IF Len(resp) # 6 + (args.coil_count \div 8)
       THEN Raise("BadResponseLengthException", "Incorrect response length for coil status request.")
       ELSE pair_coils(coil_bits(resp, Min(resp[3] + 3, Len(resp))), 1,
                       args.start_address, << >>, args.coil_count)

(***************************************************************************)
(* Register namespaces (src/mx2/enums.py:126-236).  A register argument is *)
(* a member of a namespace, named by its position, or a plain integer.     *)
(***************************************************************************)
Member(cls, i) == [cls |-> cls, v |-> i]
IntAddr(n) == [cls |-> "int", v |-> n]

members(cls) ==
    CASE cls = "ModbusRegisters" -> ModbusRegisters
      [] cls = "MonitoringFunctions" -> MonitoringFunctions
      [] cls = "MainProfileParameters" -> MainProfileParameters

isinstance_Register(r) == r.cls # "int"

\* the address an argument compares and computes as
address(r) == IF isinstance_Register(r) THEN members(r.cls)[r.v][1] ELSE r.v

n_words(r) == members(r.cls)[r.v][2]

\* Register.next(self, n_items)
next(r, n_items) ==
    IF n_items = 0 THEN << r >>
    ELSE LET i_start == r.v + 1
             i_end == Min(Len(members(r.cls)) + 1, i_start + n_items)
         IN [i \in 1..(i_end - i_start) |-> Member(r.cls, i_start + i - 1)]

\* Register.contains(cls, value): the first member at that address, or None
contains(cls, value) ==
    IF \E i \in 1..Len(members(cls)) : members(cls)[i][1] = value
    THEN Member(cls, CHOOSE i \in 1..Len(members(cls)) :
                       /\ members(cls)[i][1] = value
                       /\ \A j \in 1..(i - 1) : members(cls)[j][1] # value)
    ELSE None

\* Register.__add__(self, other)
RECURSIVE find_at(_, _, _)
find_at(candidates, k, target) ==
    IF k > Len(candidates) THEN IntAddr(target)
    ELSE IF address(candidates[k]) = target THEN candidates[k]
    ELSE find_at(candidates, k + 1, target)

add(r, other) == find_at(next(r, other), 1, address(r) + other)

\* the span from start_address to the end of the register n_items after it
span(start_address, last_reg) ==
    address(last_reg) - address(start_address) + n_words(last_reg)

(***************************************************************************)
(* MX2.__format_register_values (src/mx2/__init__.py:412-439).             *)
(***************************************************************************)
\* [(data[n] << 8) + data[n+1] for n in range(0, len(data), 2)]
words_of(data) == [n \in 1..(Len(data) \div 2) |-> data[2 * n - 1] * 256 + data[2 * n]]

RegisterValue(register, value) == [register |-> register, value |-> value]

\* the loop with the first word of a register taken as its low word
RECURSIVE format_loop_low_word_first(_, _, _, _, _, _)
format_loop_low_word_first(words, k, addr, nb, value, values) ==
    IF k > Len(words) THEN values
    ELSE IF contains(addr.cls, address(addr)) = None
         THEN format_loop_low_word_first(words, k + 1, addr, nb, value, values)
    ELSE LET shifted == IF n_words(addr) - nb = 0
                        THEN BigInt(value.hi, value.lo + words[k])
                        ELSE BigInt(value.hi + words[k], value.lo)
         IN IF nb - 1 # 0
            THEN format_loop_low_word_first(words, k + 1, addr, nb - 1, shifted, values)
            ELSE LET appended == Append(values, RegisterValue(addr, shifted))
                     following == next(addr, 1)
                 IN IF following = << >> THEN appended
                    ELSE format_loop_low_word_first(words, k + 1, following[1],
                                     n_words(following[1]), BigInt(0, 0), appended)

RECURSIVE format_loop(_, _, _, _, _, _)
format_loop(words, k, addr, nb, value, values) ==
    IF k > Len(words) THEN values
    ELSE IF contains(addr.cls, address(addr)) = None
         THEN format_loop(words, k + 1, addr, nb, value, values)
    ELSE LET shifted == IF nb - 1 = 0 THEN BigInt(value.hi, value.lo + words[k])
                        ELSE BigInt(value.hi + words[k], value.lo)
         IN IF nb - 1 # 0
            THEN format_loop(words, k + 1, addr, nb - 1, shifted, values)
            ELSE LET appended == Append(values, RegisterValue(addr, shifted))
                     following == next(addr, 1)
                 IN IF following = << >> THEN appended
                    ELSE format_loop(words, k + 1, following[1],
                                     n_words(following[1]), BigInt(0, 0), appended)

format_register_values(start_address, data) ==
    IF ~isinstance_Register(start_address)
    THEN Raise("AttributeError", "'int' object has no attribute 'n_words'")
    \* data[n+1] on the last byte of an odd-length string
    ELSE IF Len(data) % 2 = 1 THEN Raise("IndexError", "index out of range")
    ELSE Return(format_loop(words_of(data), 1, start_address,
                            n_words(start_address), BigInt(0, 0), << >>))

(***************************************************************************)
(* MX2.__prepare_for_writing (src/mx2/__init__.py:629-654).                *)
(***************************************************************************)
\* value.to_bytes(2 * n, 'big') for a value that fits
to_bytes(value, n) ==
    IF n = 1 THEN << Hi(value.lo), Lo(value.lo) >>
    ELSE << Hi(value.hi), Lo(value.hi), Hi(value.lo), Lo(value.lo) >>

\* value < 0 or value >= (1 << 16 * n)
out_of_range(value, n) ==
    \/ value.hi < 0
    \/ IF n = 1 THEN value.hi >= 1 ELSE value.hi >= 65536

RECURSIVE prepare_loop(_, _, _, _)
prepare_loop(regs, values, k, msg) ==
    IF k > Len(regs) \/ k > Len(values) THEN Return(msg)
    ELSE IF isinstance_Register(regs[k])
    THEN IF out_of_range(values[k], n_words(regs[k]))
         THEN Raise("BadParameterException", "Value out of range.")
         ELSE prepare_loop(regs, values, k + 1,
                           msg \o to_bytes(values[k], n_words(regs[k])))
    ELSE IF out_of_range(values[k], 1)
         THEN Raise("BadParameterException", "Value out of range (must be between 0 and 65535).")
         ELSE prepare_loop(regs, values, k + 1, msg \o to_bytes(values[k], 1))

prepare_for_writing(start_address, values) ==
    IF isinstance_Register(start_address)
    THEN prepare_loop(<< start_address >> \o next(start_address, Len(values)),
                      values, 1, << >>)
    ELSE prepare_loop([k \in 1..Len(values) |-> start_address], values, 1, << >>)

\* bytes([...]) raises ValueError unless every item is in range(0, 256)
bytes_ok(items) == \A k \in 1..Len(items) : InByte(items[k])

(***************************************************************************)
(* MX2.read_registers (src/mx2/__init__.py:442-486).  The call is also the *)
(* second half of read_fault_monitor, which passes its own arguments on.   *)
(***************************************************************************)
read_registers_call(args, start_address, register_count) ==
    IF dev_id > 249
    THEN Fail(args, Raise("BadRequestException", "Cannot broadcast a read command."))
    ELSE IF address(start_address) < 1 \/ address(start_address) > 65535
    THEN Fail(args, Raise("BadParameterException", "Start address out of range (must be between 1 and 0xffff)."))
    ELSE IF register_count < 1 \/ register_count > 16
    THEN Fail(args, Raise("BadParameterException", "Invalid register count (must be between 1 and 16)."))
    ELSE LET following == next(start_address, register_count - 1)
             last_reg == following[Len(following)]
             word_count == IF isinstance_Register(start_address)
                           THEN span(start_address, last_reg)
                           ELSE register_count
             head == << Hi(address(start_address) - 1), Lo(address(start_address) - 1),
                        0, word_count >>
         IN IF isinstance_Register(start_address) /\ following = << >>
            THEN Fail(args, Raise("IndexError", "list index out of range"))
            \* line 469 builds the exception for word_count > 16 and drops it
            ELSE IF ~bytes_ok(head)
            THEN Fail(args, Raise("ValueError", "bytes must be in range(0, 256)"))
            ELSE send(args @@ [word_count |-> word_count], ReadHoldingRegister, head, TRUE)

read_registers(start_address, register_count) ==
    /\ CanCall
    /\ read_registers_call([op |-> "read_registers", start_address |-> start_address,
                            register_count |-> register_count],
                           start_address, register_count)

read_registers_response(args, id, resp) ==
    LET valid == check_validity(id, ReadHoldingRegister, resp)
    IN IF valid.exc # "" THEN valid
       ELSE IF Len(resp) # 5 + args.word_count * 2
       THEN Raise("BadResponseLengthException", "Incorrect response length for register content request.")
       ELSE format_register_values(args.start_address,
                                   Slice(resp, 3, 3 + args.word_count * 2))

(***************************************************************************)
(* The response checks the write operations and the loopback test share.   *)
(***************************************************************************)
\* the checks with the content compared before the length
echo_response_content_first(command, id, resp, msg, what) ==
    LET valid == check_validity(id, command, resp)
    IN IF valid.exc # "" THEN valid
       ELSE IF Slice(resp, 2, 6) # Slice(msg, 0, 4)
       THEN Raise("BadResponseException", "Response content differs from command content.")
       ELSE IF Len(resp) # 8
       THEN Raise("BadResponseLengthException", "Incorrect response length for " \o what)
       ELSE Return(None)

echo_response(command, id, resp, msg, what) ==
    LET valid == check_validity(id, command, resp)
    IN IF valid.exc # "" THEN valid
       ELSE IF Len(resp) # 8
       THEN Raise("BadResponseLengthException", "Incorrect response length for " \o what)
       ELSE IF Slice(resp, 2, 6) # Slice(msg, 0, 4)
       THEN Raise("BadResponseException", "Response content differs from command content.")
       ELSE Return(None)

(***************************************************************************)
(* MX2.write_in_coil (src/mx2/__init__.py:489-520).                        *)
(***************************************************************************)
write_in_coil(coil, state) ==
    /\ CanCall
    /\ LET args == [op |-> "write_in_coil", address |-> coil, state |-> state]
       IN IF coil.v < 1 \/ coil.v > 88
          THEN Fail(args, Raise("BadParameterException", "Address out of range (must be between 1 and 0x58)."))
          ELSE send(args, WriteInCoil,
                    << 0, coil.v - 1, IF state THEN 255 ELSE 0, 0 >>, ~(dev_id > 249))

(***************************************************************************)
(* MX2.write_in_multiple_registers (src/mx2/__init__.py:657-704).  The     *)
(* call is also where write_in_register sends a wide register.             *)
(***************************************************************************)
write_in_multiple_registers_call(args, start_address, values) ==
    IF address(start_address) < 1 \/ address(start_address) > 65535
    THEN Fail(args, Raise("BadParameterException", "Start address out of range (must be between 1 and 0xffff)."))
    ELSE IF Len(values) = 0 \/ Len(values) > 16
    THEN Fail(args, Raise("BadParameterException", "Invalid data array length (must be between 1 and 16)."))
    ELSE LET following == next(start_address, Len(values) - 1)
             last_reg == following[Len(following)]
             word_count == IF isinstance_Register(start_address)
                           THEN span(start_address, last_reg)
                           ELSE Len(values)
             head == << Hi(address(start_address) - 1), Lo(address(start_address) - 1),
                        0, word_count, 2 * word_count >>
             body == prepare_for_writing(start_address, values)
         IN IF isinstance_Register(start_address) /\ following = << >>
            THEN Fail(args, Raise("IndexError", "list index out of range"))
            ELSE IF isinstance_Register(start_address) /\ word_count > 16
            THEN Fail(args, Raise("BadParameterException", "Register count spans a too large address range."))
            ELSE IF ~bytes_ok(head)
            THEN Fail(args, Raise("ValueError", "bytes must be in range(0, 256)"))
            ELSE IF body.exc # "" THEN Fail(args, body)
            ELSE send(args, WriteInRegisters, head \o body.value, ~(dev_id > 249))

write_in_multiple_registers(start_address, values) ==
    /\ CanCall
    /\ write_in_multiple_registers_call(
           [op |-> "write_in_multiple_registers", start_address |-> start_address,
            values |-> values], start_address, values)

(***************************************************************************)
(* MX2.write_in_register (src/mx2/__init__.py:523-560).                    *)
(***************************************************************************)
\* the operation with every register taken as one word wide
write_in_register_single_word(reg, value) ==
    /\ CanCall
    /\ LET args == [op |-> "write_in_register", address |-> reg, value |-> value]
       IN IF address(reg) < 1 \/ address(reg) > 65535
          THEN Fail(args, Raise("BadParameterException", "Address out of range (must be between 1 and 0xffff)."))
          ELSE IF out_of_range(value, 1)
          THEN Fail(args, Raise("BadParameterException", "Value out of range (must be between 0 and 65535)."))
          ELSE send(args, WriteInHoldingRegister,
                    << Hi(address(reg) - 1), Lo(address(reg) - 1),
                       Hi(value.lo), Lo(value.lo) >>, ~(dev_id > 249))

write_in_register(reg, value) ==
    /\ CanCall
    /\ LET args == [op |-> "write_in_register", address |-> reg, value |-> value]
       IN IF address(reg) < 1 \/ address(reg) > 65535
          THEN Fail(args, Raise("BadParameterException", "Address out of range (must be between 1 and 0xffff)."))
          ELSE IF isinstance_Register(reg) /\ n_words(reg) > 1
          THEN write_in_multiple_registers_call(args, reg, << value >>)
          ELSE IF out_of_range(value, 1)
          THEN Fail(args, Raise("BadParameterException", "Value out of range (must be between 0 and 65535)."))
          ELSE send(args, WriteInHoldingRegister,
                    << Hi(address(reg) - 1), Lo(address(reg) - 1),
                       Hi(value.lo), Lo(value.lo) >>, ~(dev_id > 249))

(***************************************************************************)
(* MX2.loopback_test (src/mx2/__init__.py:563-583).  The test value is the *)
(* low 16 bits of the wall clock in milliseconds: any 16-bit value.        *)
(***************************************************************************)
loopback_test(value) ==
    /\ CanCall
    /\ LET args == [op |-> "loopback_test", value |-> value]
       IN IF dev_id > 249
          THEN Fail(args, Raise("BadRequestException", "Cannot broadcast the loopback test."))
          ELSE send(args, LoopbackTest, << 0, 0, Hi(value), Lo(value) >>, TRUE)

(***************************************************************************)
(* MX2.write_in_multiple_coils (src/mx2/__init__.py:586-626).              *)
(***************************************************************************)
\* sum((1 if values[n] else 0) << (len(values)-n-1)): first value highest
RECURSIVE intval(_, _)
intval(values, k) ==
    IF k = 0 THEN 0
    ELSE (IF values[k] THEN 2 ^ (Len(values) - k) ELSE 0) + intval(values, k - 1)

\* (intval >> 8*(nbytes-n-1)) & 0xff for n in range(nbytes)
coil_bytes(v, nbytes) == [n \in 1..nbytes |-> (v \div (256 ^ (nbytes - n))) % 256]

write_in_multiple_coils(start_address, values) ==
    /\ CanCall
    /\ LET args == [op |-> "write_in_multiple_coils", start_address |-> start_address,
                    values |-> values]
           nbytes == Min(4, (Len(values) \div 8) + 1)
       IN IF start_address.v < 1 \/ start_address.v > 88
          THEN Fail(args, Raise("BadParameterException", "Start address out of range (must be between 1 and 0x58)."))
          ELSE IF Len(values) = 0 \/ Len(values) > 31
          THEN Fail(args, Raise("BadParameterException", "Invalid data array length (must be between 1 and 31)."))
          ELSE send(args, WriteInMultipleCoils,
                    << 0, start_address.v - 1, 0, Len(values), nbytes >>
                        \o coil_bytes(intval(values, Len(values)), nbytes),
                    ~(dev_id > 249))

(***************************************************************************)
(* MX2.read_and_write_registers (src/mx2/__init__.py:707-780).             *)
(***************************************************************************)
read_and_write_registers(read_start_address, write_start_address, read_count, write_values) ==
    /\ CanCall
    /\ LET args == [op |-> "read_and_write_registers",
                    start_address |-> read_start_address,
                    write_start_address |-> write_start_address,
                    read_count |-> read_count, write_values |-> write_values]
           read_following == next(read_start_address, read_count - 1)
           read_last == read_following[Len(read_following)]
           read_word_count == IF isinstance_Register(read_start_address)
                              THEN span(read_start_address, read_last)
                              ELSE read_count
           write_following == next(write_start_address, Len(write_values) - 1)
           write_last == write_following[Len(write_following)]
           write_word_count == IF isinstance_Register(write_start_address)
                               THEN span(write_start_address, write_last)
                               ELSE Len(write_values)
           head == << Hi(address(read_start_address) - 1),
                      Lo(address(read_start_address) - 1), 0, read_word_count,
                      Hi(address(write_start_address) - 1),
                      Lo(address(write_start_address) - 1), 0, write_word_count,
                      2 * write_word_count >>
           body == prepare_for_writing(write_start_address, write_values)
       IN IF dev_id > 249
          THEN Fail(args, Raise("BadRequestException", "Cannot broadcast a read command."))
          ELSE IF address(read_start_address) < 1 \/ address(read_start_address) > 65535
          THEN Fail(args, Raise("BadParameterException", "Read start address out of range (must be between 1 and 0xffff)."))
          ELSE IF address(write_start_address) < 1 \/ address(write_start_address) > 65535
          THEN Fail(args, Raise("BadParameterException", "Write start address out of range (must be between 1 and 0xffff)."))
          ELSE IF read_count < 1 \/ read_count > 16
          THEN Fail(args, Raise("BadParameterException", "Invalid read count (must be between 1 and 16)."))
          ELSE IF Len(write_values) = 0 \/ Len(write_values) > 16
          THEN Fail(args, Raise("BadParameterException", "Invalid write data length (must be between 1 and 16)."))
          ELSE IF \E k \in 1..Len(write_values) : out_of_range(write_values[k], 1)
          THEN Fail(args, Raise("BadParameterException", "Value out of range (must be between 0 and 65535)."))
          ELSE IF isinstance_Register(read_start_address) /\ read_following = << >>
          THEN Fail(args, Raise("IndexError", "list index out of range"))
          \* line 746 builds the exception for read_word_count > 16 and drops it
          ELSE IF isinstance_Register(write_start_address) /\ write_following = << >>
          THEN Fail(args, Raise("IndexError", "list index out of range"))
          ELSE IF isinstance_Register(write_start_address) /\ write_word_count > 16
          THEN Fail(args, Raise("BadParameterException", "Register count spans a too large address range."))
          ELSE IF ~bytes_ok(head)
          THEN Fail(args, Raise("ValueError", "bytes must be in range(0, 256)"))
          ELSE IF body.exc # "" THEN Fail(args, body)
          ELSE send(args @@ [word_count |-> read_word_count], ReadWriteRegisters,
                    head \o body.value, TRUE)

read_and_write_registers_response(args, id, resp) ==
    LET valid == check_validity(id, ReadWriteRegisters, resp)
    IN IF valid.exc # "" THEN valid
       ELSE IF Len(resp) # 5 + args.word_count * 2
       THEN Raise("BadResponseLengthException", "Incorrect response length for register content request.")
       ELSE format_register_values(args.start_address,
                                   Slice(resp, 3, 3 + args.word_count * 2))

(***************************************************************************)
(* MX2.read_fault_monitor (src/mx2/__init__.py:783-811).                   *)
(***************************************************************************)
\* FaultMonitor1 .. FaultMonitor6, by their position in MonitoringFunctions
FaultMonitors == << 30, 37, 44, 51, 58, 65 >>

\* FaultMonitorData.Frequency, .RunningTime, .PowerOnTime
WideFaultData == {2, 6, 8}

read_fault_monitor(index, value) ==
    /\ CanCall
    /\ LET args == [op |-> "read_fault_monitor", index |-> index, value |-> value]
           \* the list of six is indexed from 0 with an index from 1
           addr == add(Member("MonitoringFunctions", FaultMonitors[index + 1]), value)
           register_count == IF value \in WideFaultData THEN 2 ELSE 1
       IN IF index < 1 \/ index > 6
          THEN Fail(args, Raise("BadParameterException", "Fault monitor index can be between 1 and 6."))
          ELSE IF value < 0 \/ value > 9
          THEN Fail(args, Raise("BadParameterException", "Fault monitor data index can be between 0 and 9."))
          ELSE IF index + 1 > Len(FaultMonitors)
          THEN Fail(args, Raise("IndexError", "list index out of range"))
          ELSE read_registers_call(args @@ [start_address |-> addr,
                                            register_count |-> register_count],
                                   addr, register_count)

\* (result[0] << 16) + result[1], or result[0]
read_fault_monitor_response(args, id, resp) ==
    LET inner == read_registers_response(args, id, resp)
    IN IF inner.exc # "" THEN inner
       ELSE IF Len(inner.value) = 0 THEN Raise("IndexError", "list index out of range")
       ELSE IF args.register_count = 1 THEN Return(inner.value[1])
       ELSE IF Len(inner.value) = 1 THEN Raise("IndexError", "list index out of range")
       ELSE Raise("TypeError", "unsupported operand type(s) for +: 'int' and 'RegisterValue'")

(***************************************************************************)
(* self._wait() and self._read(), then the rest of the operation           *)
(* (src/mx2/__init__.py:285-309).                                          *)
(***************************************************************************)
\* the clock after _wait()
wait(t) ==
    LET rem_time == WaitTicks - t + last_req_time
    IN IF rem_time <= 0 THEN t ELSE t + rem_time

\* what _read() returns for the bytes that are waiting
read(buf) == IF Len(buf) = 0 THEN None ELSE buf

respond(args, command, msg, id, resp) ==
    CASE args.op = "read_coil_status" -> read_coil_status_response(args, id, resp)
      [] args.op = "read_registers" -> read_registers_response(args, id, resp)
      [] args.op = "read_and_write_registers" ->
             read_and_write_registers_response(args, id, resp)
      [] args.op = "read_fault_monitor" -> read_fault_monitor_response(args, id, resp)
      [] args.op = "write_in_coil" ->
             echo_response(command, id, resp, msg, "write in coil command.")
      [] args.op = "write_in_register" /\ command = WriteInHoldingRegister ->
             echo_response(command, id, resp, msg, "write in register command.")
      [] args.op = "write_in_register" /\ command = WriteInRegisters ->
             echo_response(command, id, resp, msg, "write in multiple registers command.")
      [] args.op = "write_in_multiple_registers" ->
             echo_response(command, id, resp, msg, "write in multiple registers command.")
      [] args.op = "write_in_multiple_coils" ->
             echo_response(command, id, resp, msg, "write in multiple coils command.")
      [] args.op = "loopback_test" ->
             echo_response(command, id, resp, msg, "loopback test.")

wait_and_read ==
    /\ pc = "wait"
    /\ call.op # "save_settings_to_eeprom"
    /\ now' = wait(now)
    /\ IF ~is_open
       THEN /\ result' = Raise("SerialException", "Serial port not open.")
            /\ UNCHANGED << rx, nreads, response >>
       ELSE /\ rx' = << >>
            /\ nreads' = nreads + 1
            /\ response' = read(rx)
            /\ result' = respond(call, sent[1].command, sent[1].data, dev_id, read(rx))
    /\ pc' = "done"
    /\ UNCHANGED << dev_id, is_open, last_req_time, call, sent, tx >>
    /\ UNCHANGED << codec_vars, config_vars, pure_vars >>

(***************************************************************************)
(* MX2.save_settings_to_eeprom (src/mx2/__init__.py:814-824): a write of 1 *)
(* to WriteToEEPROM, then polls of DataWritingInProgress, each poll that   *)
(* reads true followed by a sleep and a read of FaultMonitor1.  The        *)
(* operation is cut where it sleeps: its first part runs to the first      *)
(* _wait(), each later part from one _wait() to the next.                  *)
(***************************************************************************)
MaxSends == 4            \* requests one call may send

WriteToEEPROM == Member("ModbusRegisters", 5)
DataWritingInProgress == CoilMember(73)
FaultMonitor1 == Member("MonitoringFunctions", 30)
EEPROMError == 8         \* TripFactor.EEPROMError

\* self.write_in_register(ModbusRegisters.WriteToEEPROM, 1)
eeprom_write ==
    [command |-> WriteInHoldingRegister,
     data |-> << Hi(address(WriteToEEPROM) - 1), Lo(address(WriteToEEPROM) - 1),
                 Hi(1), Lo(1) >>]

\* self.read_coil_status(Coil.DataWritingInProgress, 1)
eeprom_poll ==
    [command |-> ReadCoilStatus,
     data |-> << 0, DataWritingInProgress.v - 1, 0, 1 >>]

\* self.read_registers(MonitoringFunctions.FaultMonitor1, 1)
eeprom_fault ==
    [command |-> ReadHoldingRegister,
     data |-> << Hi(address(FaultMonitor1) - 1), Lo(address(FaultMonitor1) - 1),
                 0, n_words(FaultMonitor1) >>]

\* the arguments of the inner call that sent the request
eeprom_args(command) ==
    CASE command = ReadCoilStatus ->
             [op |-> "read_coil_status", start_address |-> DataWritingInProgress,
              coil_count |-> 1]
      [] command = ReadHoldingRegister ->
             [op |-> "read_registers", start_address |-> FaultMonitor1,
              register_count |-> 1, word_count |-> n_words(FaultMonitor1)]
      [] OTHER ->
             [op |-> "write_in_register", address |-> WriteToEEPROM,
              value |-> BigInt(0, 1)]

\* the loop with the fault factor read after every poll
eeprom_step_fault_after_any_poll(command, outcome) ==
    IF outcome.exc # "" THEN [do |-> "raise", result |-> outcome]
    ELSE IF command = WriteInHoldingRegister THEN [do |-> "poll", result |-> Pending]
    ELSE IF Len(outcome.value) = 0
    THEN [do |-> "raise", result |-> Raise("IndexError", "list index out of range")]
    ELSE IF command = ReadCoilStatus
    THEN [do |-> "fault", result |-> Pending]
    ELSE IF outcome.value[1].value = BigInt(0, EEPROMError)
    THEN [do |-> "raise", result |-> Raise("MX2Exception", "EEPROM write failed.")]
    ELSE [do |-> "poll", result |-> Pending]

\* the loop left after its first pass
eeprom_step_single_pass(command, outcome) ==
    IF outcome.exc # "" THEN [do |-> "raise", result |-> outcome]
    ELSE IF command = WriteInHoldingRegister THEN [do |-> "poll", result |-> Pending]
    ELSE IF Len(outcome.value) = 0
    THEN [do |-> "raise", result |-> Raise("IndexError", "list index out of range")]
    ELSE IF command = ReadCoilStatus
    THEN IF outcome.value[1].value THEN [do |-> "fault", result |-> Pending]
         ELSE [do |-> "return", result |-> Return(None)]
    ELSE IF outcome.value[1].value = BigInt(0, EEPROMError)
    THEN [do |-> "raise", result |-> Raise("MX2Exception", "EEPROM write failed.")]
    ELSE [do |-> "return", result |-> Return(None)]

\* the operation asking again when a request got no answer
eeprom_step_retry_unanswered(command, outcome) ==
    IF outcome.exc = "NoResponseException"
    THEN [do |-> IF command = ReadHoldingRegister THEN "fault" ELSE "poll",
          result |-> Pending]
    ELSE IF outcome.exc # "" THEN [do |-> "raise", result |-> outcome]
    ELSE IF command = WriteInHoldingRegister THEN [do |-> "poll", result |-> Pending]
    ELSE IF Len(outcome.value) = 0
    THEN [do |-> "raise", result |-> Raise("IndexError", "list index out of range")]
    ELSE IF command = ReadCoilStatus
    THEN IF outcome.value[1].value THEN [do |-> "fault", result |-> Pending]
         ELSE [do |-> "return", result |-> Return(None)]
    ELSE IF outcome.value[1].value = BigInt(0, EEPROMError)
    THEN [do |-> "raise", result |-> Raise("MX2Exception", "EEPROM write failed.")]
    ELSE [do |-> "poll", result |-> Pending]

\* what the operation does with the outcome of the inner call it waited for:
\* raise, return, poll the coil or read the fault factor
eeprom_step(command, outcome) ==
    IF outcome.exc # "" THEN [do |-> "raise", result |-> outcome]
    ELSE IF command = WriteInHoldingRegister THEN [do |-> "poll", result |-> Pending]
    \* [0] of the list the inner call returned
    ELSE IF Len(outcome.value) = 0
    THEN [do |-> "raise", result |-> Raise("IndexError", "list index out of range")]
    ELSE IF command = ReadCoilStatus
    THEN IF outcome.value[1].value THEN [do |-> "fault", result |-> Pending]
         ELSE [do |-> "return", result |-> Return(None)]
    ELSE IF outcome.value[1].value = BigInt(0, EEPROMError)
    THEN [do |-> "raise", result |-> Raise("MX2Exception", "EEPROM write failed.")]
    ELSE [do |-> "poll", result |-> Pending]

\* up to the first _wait(): the write is sent; the poll that follows a
\* broadcast write is refused
save_settings_to_eeprom ==
    /\ CanCall
    /\ LET args == [op |-> "save_settings_to_eeprom"]
       IN IF ~is_open
          THEN Fail(args, Raise("SerialException", "Serial port not open."))
          ELSE /\ call' = args
               /\ sent' = << eeprom_write >>
               /\ tx' = << request(dev_id, eeprom_write.command, eeprom_write.data) >>
               /\ last_req_time' = now
               /\ nreads' = 0
               /\ response' = None
               /\ pc' = IF dev_id > 249 THEN "done" ELSE "wait"
               /\ result' = IF dev_id > 249
                            THEN Raise("BadRequestException", "Cannot broadcast a read command.")
                            ELSE Pending
               /\ UNCHANGED << dev_id, is_open, now, rx >>
               /\ UNCHANGED << codec_vars, config_vars, pure_vars >>

\* from one _wait() to the next: the reply is read and judged, then the
\* operation ends or sends its next request
save_settings_resume ==
    /\ pc = "wait"
    /\ call.op = "save_settings_to_eeprom"
    /\ LET last == sent[Len(sent)]
           outcome == respond(eeprom_args(last.command), last.command, last.data,
                              dev_id, read(rx))
           step == IF ~is_open
                   THEN [do |-> "raise",
                         result |-> Raise("SerialException", "Serial port not open.")]
                   ELSE eeprom_step(last.command, outcome)
           following == IF step.do = "poll" THEN eeprom_poll ELSE eeprom_fault
           \* sleep(self._wait_time) ahead of the fault factor read
           resumed == IF step.do = "fault" THEN wait(now) + WaitTicks ELSE wait(now)
       IN /\ step.do \in {"poll", "fault"} => Len(sent) < MaxSends
          /\ now' = resumed
          /\ IF is_open
             THEN rx' = << >> /\ nreads' = nreads + 1 /\ response' = read(rx)
             ELSE UNCHANGED << rx, nreads, response >>
          /\ IF step.do \in {"poll", "fault"}
             THEN /\ sent' = Append(sent, following)
                  /\ tx' = Append(tx, request(dev_id, following.command, following.data))
                  /\ last_req_time' = resumed
                  /\ pc' = "wait"
                  /\ result' = Pending
             ELSE /\ pc' = "done"
                  /\ result' = step.result
                  /\ UNCHANGED << sent, tx, last_req_time >>
    /\ UNCHANGED << dev_id, is_open, call >>
    /\ UNCHANGED << codec_vars, config_vars, pure_vars >>

\* the caller takes the result or the exception
return ==
    /\ pc = "done"
    /\ pc' = "idle"
    /\ call' = NoCall
    /\ sent' = << >>
    /\ tx' = << >>
    /\ nreads' = 0
    /\ response' = None
    /\ result' = Pending
    /\ UNCHANGED << dev_id, is_open, now, last_req_time, rx >>
    /\ UNCHANGED << codec_vars, config_vars, pure_vars >>

\* time passes between calls
Tick ==
    /\ pc = "idle"
    /\ now < MaxTime
    /\ now' = now + 1
    /\ UNCHANGED << dev_id, is_open, last_req_time, rx, pc, call, sent, tx, nreads,
                    response, result >>
    /\ UNCHANGED << codec_vars, config_vars, pure_vars >>

(***************************************************************************)
(* What callers pass in.                                                   *)
(***************************************************************************)
RegisterArgs ==
    {IntAddr(0), IntAddr(5), IntAddr(65536)}
    \cup {Member("MonitoringFunctions", i) : i \in {1, 10, 16, 28, 30, 80}}
    \cup {Member("ModbusRegisters", i) : i \in {4, 6}}
    \cup {Member("MainProfileParameters", 1)}

RegisterCounts == {0, 1, 2, 3, 16, 17}

Zeros(n) == [k \in 1..n |-> BigInt(0, 0)]

ValueArgs == {BigInt(0, 7), BigInt(-1, 65535), BigInt(0, 65535), BigInt(1, 0),
              BigInt(65535, 65535), BigInt(65536, 0)}

ValueLists ==
    {<< >>, Zeros(2), Zeros(16), Zeros(17), << BigInt(0, 0), BigInt(-1, 65535) >>}
    \cup {<< v >> : v \in ValueArgs}

CoilLists ==
    {<< >>, << TRUE >>, << TRUE, FALSE, TRUE, TRUE, FALSE >>,
     [k \in 1..8 |-> k = 1], [k \in 1..9 |-> k # 2], [k \in 1..31 |-> TRUE],
     [k \in 1..32 |-> TRUE]}

LoopbackValues == {0, 4660, 65535}

FaultIndexes == {0, 1, 5, 6, 7}

FaultFields == {-1, 0, 2, 3, 10}

(***************************************************************************)
(* The device.  Replies are frames with a good checksum unless corrupted.  *)
(***************************************************************************)
frame(body) == body \o crc16(body)

\* a frame whose checksum no longer matches
corrupt(f) == [f EXCEPT ![Len(f)] = (@ + 1) % 256]

\* two runs of data bytes; the first starts 5, 87, 169, ...
data_bytes(pattern, n) ==
    [j \in 1..n |-> IF pattern = 1 THEN (5 + 82 * (j - 1)) % 256
                    ELSE (146 + 37 * j) % 256]

\* replies of the kind the operation expects, well formed or not
ExpectedBodies(args, command, msg, id) ==
    IF command = ReadCoilStatus
    THEN {<< id, command, bc >> \o data_bytes(p, n) :
              << n, bc, p >> \in
                  {t \in (1..5) \X (0..7) \X {1, 2} :
                      /\ t[1] \in {(args.coil_count \div 8) + 1,
                                   (args.coil_count + 7) \div 8}
                      /\ t[2] \in {t[1], 0, t[1] + 2}}}
    ELSE IF command \in {ReadHoldingRegister, ReadWriteRegisters}
    THEN {<< id, command, n % 256 >> \o data_bytes(p, n) :
              << n, p >> \in
                  {t \in (0..512) \X {1, 2} :
                      \/ t[1] = 2 * args.word_count
                      \/ t[2] = 1 /\ t[1] \in {2 * args.word_count + 2,
                                               2 * args.word_count - 2}}}
         \cup {<< id, command, 0 >> \o data_bytes(1, 2 * args.word_count)}
    ELSE {<< id, command >> \o Slice(msg, 0, 4),
          << id, command >> \o [Slice(msg, 0, 4) EXCEPT ![4] = (@ + 1) % 256],
          << id, command >> \o [Slice(msg, 0, 4) EXCEPT ![1] = (@ + 1) % 256],
          << id, command >> \o Slice(msg, 0, 3),
          << id, command >> \o Slice(msg, 0, 4) \o << 0 >>,
          << id, command >> \o [Slice(msg, 0, 4) EXCEPT ![4] = (@ + 1) % 256] \o << 0 >>}

\* the well-formed reply the damaged ones are derived from
nominal(args, command, msg, id) ==
    IF command = ReadCoilStatus
    THEN << id, command, (args.coil_count \div 8) + 1 >>
             \o data_bytes(1, (args.coil_count \div 8) + 1)
    ELSE IF command \in {ReadHoldingRegister, ReadWriteRegisters}
    THEN << id, command, 2 >> \o data_bytes(1, 2)
    ELSE << id, command >> \o Slice(msg, 0, 4)

ExceptionCodes == {FunctionNotSupported, FunctionNotFound, InvalidDataFormat,
                   OutOfBounds, FunctionNotAvailable, ReadOnlyTarget, 80}

other_id(id) == (id % 247) + 1
other_command(command) == IF command = 64 THEN 65 ELSE 64

Replies(args, command, msg, id) ==
    LET good == nominal(args, command, msg, id)
        rest == SubSeq(good, 3, Len(good))
    IN {frame(b) : b \in ExpectedBodies(args, command, msg, id)}
       \cup {frame(<< id, command + 128, c >>) : c \in ExceptionCodes}
       \cup {corrupt(frame(good)),
             frame(<< other_id(id), command >> \o rest),
             corrupt(frame(<< other_id(id), command >> \o rest)),
             frame(<< other_id(id), other_command(command) >> \o rest),
             frame(<< id, other_command(command) >> \o rest),
             corrupt(frame(<< id, other_command(command) >> \o rest)),
             corrupt(frame(<< id, command + 128, FunctionNotFound >>)),
             frame(<< other_id(id), command + 128, FunctionNotFound >>)}

\* replies that settle save_settings_to_eeprom: the coil read as false, the
\* fault factor read as TripFactor.EEPROMError
EepromReplies(command, id) ==
    IF command = ReadCoilStatus THEN {frame(<< id, command, 1, 0 >>)}
    ELSE IF command = ReadHoldingRegister
    THEN {frame(<< id, command, 2, Hi(EEPROMError), Lo(EEPROMError) >>)}
    ELSE {}

\* what the device may answer to the request on the line
Pending_replies ==
    IF pc # "wait" \/ rx # << >> THEN {}
    ELSE IF call.op = "save_settings_to_eeprom"
    THEN LET last == sent[Len(sent)]
         IN Replies(eeprom_args(last.command), last.command, last.data, dev_id)
                \cup EepromReplies(last.command, dev_id)
    ELSE Replies(call, sent[1].command, sent[1].data, dev_id)

\* the reply arrives while the driver waits
DeviceReply(r) ==
    /\ pc = "wait"
    /\ rx = << >>
    /\ rx' = r
    /\ UNCHANGED << dev_id, is_open, now, last_req_time, pc, call, sent, tx, nreads,
                    response, result >>
    /\ UNCHANGED << codec_vars, config_vars, pure_vars >>

Next ==
    \/ open
    \/ close
    \/ \E id \in DeviceIds : set_device_id(id)
    \/ \E c \in CoilArgs, n \in CoilCounts : read_coil_status(c, n)
    \/ \E r \in RegisterArgs, n \in RegisterCounts : read_registers(r, n)
    \/ \E c \in CoilArgs, b \in BOOLEAN : write_in_coil(c, b)
    \/ \E r \in RegisterArgs, v \in ValueArgs : write_in_register(r, v)
    \/ \E v \in LoopbackValues : loopback_test(v)
    \/ \E c \in CoilArgs, l \in CoilLists : write_in_multiple_coils(c, l)
    \/ \E r \in RegisterArgs, l \in ValueLists : write_in_multiple_registers(r, l)
    \/ \E r \in {IntAddr(0), IntAddr(5), Member("MonitoringFunctions", 1),
                 Member("MonitoringFunctions", 28)},
          w \in {IntAddr(0), IntAddr(5), Member("ModbusRegisters", 4),
                 Member("MainProfileParameters", 1), Member("MonitoringFunctions", 10)},
          n \in {0, 1, 16, 17},
          l \in {<< >>, Zeros(2), Zeros(17), << BigInt(1, 0) >>, << BigInt(-1, 65535) >>,
                 << BigInt(0, 7) >>} :
          read_and_write_registers(r, w, n, l)
    \/ \E i \in FaultIndexes, f \in FaultFields : read_fault_monitor(i, f)
    \/ save_settings_to_eeprom
    \/ save_settings_resume
    \/ \E r \in Pending_replies : DeviceReply(r)
    \/ wait_and_read
    \/ return
    \/ Tick

Spec == Init /\ [][Next]_vars

(***************************************************************************)
(* save_settings_to_eeprom on its own, with a device that may answer       *)
(* anything or nothing.  The sleep of _wait() ends: a call that waits goes *)
(* on.                                                                     *)
(***************************************************************************)
NextCommit ==
    \/ open
    \/ \E id \in {8, 250} : set_device_id(id)
    \/ save_settings_to_eeprom
    \/ save_settings_resume
    \/ \E r \in Pending_replies : DeviceReply(r)
    \/ return
    \/ Tick

SpecCommit == Init /\ [][NextCommit]_vars /\ WF_vars(save_settings_resume)

(***************************************************************************)
(* A device slower than the quiet period, or one that answers a broadcast  *)
(* request: its answer reaches the transport after the call has ended.     *)
(* _send() (src/mx2/__init__.py:275-282) writes the next request without   *)
(* touching the receive buffer, and _read() (lines 306-309) takes all that *)
(* waits there.                                                            *)
(***************************************************************************)
LateReply(r) ==
    /\ pc = "done"
    /\ is_open
    /\ tx # << >>
    /\ rx = << >>
    /\ nreads = 0 \/ response = None
    /\ rx' = r
    /\ UNCHANGED << dev_id, is_open, now, last_req_time, pc, call, sent, tx, nreads,
                    response, result >>
    /\ UNCHANGED << codec_vars, config_vars, pure_vars >>

NextLate ==
    \/ open
    \/ \E id \in {1, 250} : set_device_id(id)
    \/ \E c \in {CoilMember(1), CoilMember(7)}, n \in {1, 2} : read_coil_status(c, n)
    \/ \E c \in {CoilMember(1), CoilMember(7)}, b \in BOOLEAN : write_in_coil(c, b)
    \/ \E r \in Pending_replies : DeviceReply(r)
    \/ \E r \in (IF sent = << >> THEN {}
                ELSE Replies(call, sent[1].command, sent[1].data, dev_id)) : LateReply(r)
    \/ wait_and_read
    \/ return
    \/ Tick

SpecLate == Init /\ [][NextLate]_vars

\* the configuration of the quiet period, with the transport opened and closed
NextConfig ==
    \/ open
    \/ close
    \/ \E baud_rate \in BaudRateArgs : set_baud_rate(baud_rate)
    \/ \E latency \in LatencyTimeArgs : set_latency_time(latency)
    \/ return

SpecConfig == Init /\ [][NextConfig]_vars

(***************************************************************************)
(* The checksum on its own: a byte string is summed, then framed, then the *)
(* frame is summed again (src/mx2/__init__.py:25-45, 279-280, 335).        *)
(***************************************************************************)
CrcBytes == {0, 1, 8, 128, 255}

RECURSIVE ByteStrings(_)
ByteStrings(n) ==
    IF n = 0 THEN {<< >>}
    ELSE ByteStrings(n - 1)
         \cup {Append(s, b) : s \in {t \in ByteStrings(n - 1) : Len(t) = n - 1},
                              b \in CrcBytes}

InitCrc ==
    /\ dev_id = 1
    /\ is_open = FALSE
    /\ now = 0
    /\ last_req_time = 0
    /\ rx = << >>
    /\ pc = "idle"
    /\ call = NoCall
    /\ sent = << >>
    /\ tx = << >>
    /\ nreads = 0
    /\ response = None
    /\ result = Pending
    /\ crc_data \in ByteStrings(MaxCrcLen) \cup {<< b >> : b \in 0..255}
                      \cup {<< id, ReadCoilStatus, 0, a - 1, 0, n >> :
                                id \in {1, 8}, a \in {1, 7, 88}, n \in {1, 5, 31}}
    /\ crc_sum = << >>
    /\ crc_stage = "payload"
    /\ latency_time = 30
    /\ baudrate = 9600
    /\ wait_time = quiet_period(30, 9600)
    /\ pure_call = NoCall
    /\ pure_result = Pending

\* crc16(request)
checksum ==
    /\ crc_stage = "payload"
    /\ crc_sum' = crc16(crc_data)
    /\ crc_stage' = "summed"
    /\ UNCHANGED crc_data
    /\ UNCHANGED << engine_vars, config_vars, pure_vars >>

\* request += crc16(request)
append_checksum ==
    /\ crc_stage = "summed"
    /\ crc_data' = crc_data \o crc_sum
    /\ crc_stage' = "framed"
    /\ UNCHANGED crc_sum
    /\ UNCHANGED << engine_vars, config_vars, pure_vars >>

\* crc16(data) != b"\x00\x00", on the frame
validate ==
    /\ crc_stage = "framed"
    /\ crc_sum' = crc16(crc_data)
    /\ crc_stage' = "checked"
    /\ UNCHANGED crc_data
    /\ UNCHANGED << engine_vars, config_vars, pure_vars >>

NextCrc == checksum \/ append_checksum \/ validate

SpecCrc == InitCrc /\ [][NextCrc]_vars

(***************************************************************************)
(* The entity tables on their own: a method of Coil or Register is applied *)
(* to declared entities (src/mx2/enums.py:109-116, 222-229).               *)
(***************************************************************************)
NextCounts == {-1, 0, 1, 2, 3, 16}

Registers ==
    UNION {{Member(cls, i) : i \in 1..Len(members(cls))} :
               cls \in {"ModbusRegisters", "MonitoringFunctions", "MainProfileParameters"}}

\* Register.__init__ (src/mx2/enums.py:129-145): what a descriptor holds
Descriptor(addr, width) == [address |-> addr, n_words |-> width]

isinstance_Descriptor(other) == "address" \in DOMAIN other

\* Register.__eq__, with another descriptor or a plain integer
eq(self, other) ==
    IF isinstance_Descriptor(other)
    THEN other.address = self.address /\ other.n_words = self.n_words
    ELSE other.v = self.address

\* Register.__le__, __lt__, __gt__, __ge__
le(self, other) ==
    IF isinstance_Descriptor(other) THEN self.address <= other.address
    ELSE self.address <= other.v

lt(self, other) ==
    IF isinstance_Descriptor(other) THEN self.address < other.address
    ELSE self.address < other.v

gt(self, other) ==
    IF isinstance_Descriptor(other) THEN self.address > other.address
    ELSE self.address > other.v

ge(self, other) ==
    IF isinstance_Descriptor(other) THEN self.address >= other.address
    ELSE self.address >= other.v

\* descriptors the constructor accepts, two of them declared:
\* MonitoringFunctions.OutputFrequency (0x1001, 2), MainProfileParameters.F001 (1, 2)
Descriptors == {Descriptor(a, w) : a \in {1, 4097, 4099, 65535}, w \in {1, 2}}

PureCalls ==
    {[fn |-> "Coil.next", self |-> CoilMember(Coil[i]), n_items |-> n] :
         i \in 1..Len(Coil), n \in NextCounts}
    \cup {[fn |-> "Register.next", self |-> r, n_items |-> n] :
              r \in Registers, n \in NextCounts}
    \cup {[fn |-> "Register.compare", self |-> a, other |-> b] :
              a \in Descriptors,
              b \in Descriptors \cup {IntAddr(k) : k \in {1, 4097, 4098}}}

InitPure ==
    /\ dev_id = 1
    /\ is_open = FALSE
    /\ now = 0
    /\ last_req_time = 0
    /\ rx = << >>
    /\ pc = "idle"
    /\ call = NoCall
    /\ sent = << >>
    /\ tx = << >>
    /\ nreads = 0
    /\ response = None
    /\ result = Pending
    /\ crc_data = << >>
    /\ crc_sum = << >>
    /\ crc_stage = "off"
    /\ latency_time = 30
    /\ baudrate = 9600
    /\ wait_time = quiet_period(30, 9600)
    /\ pure_call \in PureCalls
    /\ pure_result = Pending

\* Coil.next(self, n_items)
Coil_next ==
    /\ pure_call.fn = "Coil.next"
    /\ pure_result = Pending
    /\ pure_result' = IF pure_call.n_items < 0
                      THEN Raise("ValueError", "Item count must be positive or zero.")
                      ELSE Return(coil_next(pure_call.self, pure_call.n_items))
    /\ UNCHANGED << engine_vars, codec_vars, config_vars, pure_call >>

\* Register.next(self, n_items)
Register_next ==
    /\ pure_call.fn = "Register.next"
    /\ pure_result = Pending
    /\ pure_result' = IF pure_call.n_items < 0
                      THEN Raise("ValueError", "Item count must be positive or zero.")
                      ELSE Return(next(pure_call.self, pure_call.n_items))
    /\ UNCHANGED << engine_vars, codec_vars, config_vars, pure_call >>

\* self == other, self <= other, self < other, self > other, self >= other
Register_compare ==
    /\ pure_call.fn = "Register.compare"
    /\ pure_result = Pending
    /\ pure_result' = Return([eq |-> eq(pure_call.self, pure_call.other),
                              le |-> le(pure_call.self, pure_call.other),
                              lt |-> lt(pure_call.self, pure_call.other),
                              gt |-> gt(pure_call.self, pure_call.other),
                              ge |-> ge(pure_call.self, pure_call.other)])
    /\ UNCHANGED << engine_vars, codec_vars, config_vars, pure_call >>

NextPure == Coil_next \/ Register_next \/ Register_compare

SpecPure == InitPure /\ [][NextPure]_vars

(***************************************************************************)
(* The claims.  ParameterError is BadParameterException, BroadcastNot-     *)
(* Allowed is BadRequestException, NoResponse is NoResponseException,      *)
(* ChecksumError is CRCException, ResponseLengthError is BadResponse-      *)
(* LengthException; DeviceIdMismatch, FunctionMismatch and ResponseContent-*)
(* Error are BadResponseException with their three messages.               *)
(***************************************************************************)

\* C1: with a non-broadcast device id, a call of a high-level operation with
\* an argument outside its bounds (coil address outside 1..0x58, register
\* address outside 1..0xFFFF, coil count outside 1..31, register count or
\* value-list length outside 1..16, a write value outside the range of its
\* register, fault-monitor index outside 1..6 or field outside 0..9) ends
\* with BadParameterException, with no frame written, no read of the
\* transport and the last-request time as it was.
C1_OutOfBoundsFailsBeforeIO ==
    [][LET c == call'
           width(r) == IF isinstance_Register(r) THEN n_words(r) ELSE 1
           bad_coil(a) == a.v < 1 \/ a.v > 88
           bad_register(r) == address(r) < 1 \/ address(r) > 65535
           regs(r, n) == IF isinstance_Register(r) THEN << r >> \o next(r, n)
                         ELSE [k \in 1..n |-> r]
           bad_values(r, vs) ==
               \E k \in 1..Len(vs) :
                   out_of_range(vs[k], IF k <= Len(regs(r, Len(vs)))
                                       THEN width(regs(r, Len(vs))[k]) ELSE 2)
           out_of_bounds ==
               CASE c.op = "read_coil_status" ->
                        bad_coil(c.start_address) \/ c.coil_count < 1 \/ c.coil_count > 31
                 [] c.op = "read_registers" ->
                        \/ bad_register(c.start_address)
                        \/ c.register_count < 1 \/ c.register_count > 16
                 [] c.op = "write_in_coil" -> bad_coil(c.address)
                 [] c.op = "write_in_register" ->
                        \/ bad_register(c.address)
                        \/ out_of_range(c.value, width(c.address))
                 [] c.op = "write_in_multiple_coils" ->
                        \/ bad_coil(c.start_address)
                        \/ Len(c.values) < 1 \/ Len(c.values) > 31
                 [] c.op = "write_in_multiple_registers" ->
                        \/ bad_register(c.start_address)
                        \/ Len(c.values) < 1 \/ Len(c.values) > 16
                        \/ bad_values(c.start_address, c.values)
                 [] c.op = "read_and_write_registers" ->
                        \/ bad_register(c.start_address)
                        \/ bad_register(c.write_start_address)
                        \/ c.read_count < 1 \/ c.read_count > 16
                        \/ Len(c.write_values) < 1 \/ Len(c.write_values) > 16
                        \/ bad_values(c.write_start_address, c.write_values)
                 [] c.op = "read_fault_monitor" ->
                        c.index < 1 \/ c.index > 6 \/ c.value < 0 \/ c.value > 9
                 [] OTHER -> FALSE
       IN (pc = "idle" /\ c.op # "none" /\ dev_id <= 249 /\ out_of_bounds)
              => /\ pc' = "done"
                 /\ result'.exc = "BadParameterException"
                 /\ tx' = << >>
                 /\ nreads' = 0
                 /\ rx' = rx
                 /\ last_req_time' = last_req_time]_vars

\* C2: a read_registers call, and the read side of a read_and_write_registers
\* call, whose word span (address of the last requested register minus the
\* start address plus that register's width) exceeds 16 ends with
\* BadParameterException and no frame written; every ReadHoldingRegister and
\* ReadWriteRegisters frame sent carries a read word count in 1..16.
C2_ReadSpanAtMost16 ==
    /\ \A k \in 1..Len(sent) :
           sent[k].command \in {ReadHoldingRegister, ReadWriteRegisters}
               => sent[k].data[4] \in 1..16
    /\ (/\ pc # "idle"
        /\ call.op \in {"read_registers", "read_and_write_registers"}
        /\ dev_id <= 249
        /\ isinstance_Register(call.start_address)
        /\ LET count == IF call.op = "read_registers" THEN call.register_count
                        ELSE call.read_count
               following == next(call.start_address, count - 1)
           IN /\ count \in 1..16
              /\ following # << >>
              /\ span(call.start_address, following[Len(following)]) > 16)
           => (pc = "done" /\ result.exc = "BadParameterException" /\ tx = << >>)

\* C3: with a broadcast device id (250..254), read_coil_status,
\* read_registers, read_and_write_registers and loopback_test end with
\* BadRequestException whatever their arguments, and nothing is written to or
\* read from the transport.
C3_BroadcastReadsRejected ==
    (/\ pc # "idle"
     /\ call.op \in {"read_coil_status", "read_registers",
                     "read_and_write_registers", "loopback_test"}
     /\ dev_id \in 250..254)
        => /\ pc = "done"
           /\ result.exc = "BadRequestException"
           /\ tx = << >>
           /\ nreads = 0
           /\ response = None

\* C3 happens: a broadcast read_registers with a register count outside its
\* bounds is rejected as a broadcast, not as a bad argument.
C3_Witness ==
    /\ pc = "done"
    /\ call.op = "read_registers"
    /\ dev_id = 254
    /\ call.register_count = 17
    /\ result.exc = "BadRequestException"
    /\ tx = << >>

\* C4: with a broadcast device id, an open port and arguments within their
\* bounds, write_in_coil, write_in_register, write_in_multiple_coils and
\* write_in_multiple_registers write exactly one frame and return normally
\* at the time of the send, without reading the transport.
C4_BroadcastWritesSendOnce ==
    LET c == call
        width(r) == IF isinstance_Register(r) THEN n_words(r) ELSE 1
        ok_coil(a) == a.v >= 1 /\ a.v <= 88
        ok_register(r) == address(r) >= 1 /\ address(r) <= 65535
        regs(r, n) == IF isinstance_Register(r) THEN << r >> \o next(r, n)
                      ELSE [k \in 1..n |-> r]
        ok_values(r, vs) ==
            \A k \in 1..Len(vs) :
                ~out_of_range(vs[k], IF k <= Len(regs(r, Len(vs)))
                                     THEN width(regs(r, Len(vs))[k]) ELSE 1)
        \* the span up to the last declared register asked for
        ok_span(r, n) ==
            \/ ~isinstance_Register(r)
            \/ LET following == next(r, n - 1)
               IN IF following = << >> THEN n_words(r) <= 16
                  ELSE span(r, following[Len(following)]) <= 16
        valid ==
            CASE c.op = "write_in_coil" -> ok_coil(c.address)
              [] c.op = "write_in_register" ->
                     ok_register(c.address) /\ ~out_of_range(c.value, width(c.address))
              [] c.op = "write_in_multiple_coils" ->
                     ok_coil(c.start_address) /\ Len(c.values) \in 1..31
              [] c.op = "write_in_multiple_registers" ->
                     /\ ok_register(c.start_address)
                     /\ Len(c.values) \in 1..16
                     /\ ok_values(c.start_address, c.values)
                     /\ ok_span(c.start_address, Len(c.values))
              [] OTHER -> FALSE
    IN (pc # "idle" /\ dev_id \in 250..254 /\ is_open /\ valid)
           => /\ pc = "done"
              /\ result = Return(None)
              /\ Len(tx) = 1
              /\ nreads = 0
              /\ response = None
              /\ now = last_req_time

\* C5: for the four write operations and loopback_test with a non-broadcast
\* id, given a response with the right device id, a zero checksum residue
\* and the right function code: a response that is not 8 bytes long ends
\* with BadResponseLengthException, also when its echoed bytes differ; an
\* 8-byte response whose bytes 2..5 differ from the first four payload
\* bytes sent ends with BadResponseException (content differs); an 8-byte
\* response whose bytes 2..5 equal them succeeds.
C5_EchoLengthBeforeContent ==
    (/\ pc = "done"
     /\ nreads = 1
     /\ call.op \in {"write_in_coil", "write_in_register", "write_in_multiple_coils",
                     "write_in_multiple_registers", "loopback_test"}
     /\ Len(response) >= 2
     /\ response[1] = dev_id
     /\ crc16(response) = << 0, 0 >>
     /\ response[2] = sent[1].command)
        => IF Len(response) # 8
           THEN result.exc = "BadResponseLengthException"
           ELSE IF SubSeq(response, 3, 6) # SubSeq(sent[1].data, 1, 4)
           THEN /\ result.exc = "BadResponseException"
                /\ result.msg = "Response content differs from command content."
           ELSE result = Return(None)

\* C5 happens: a 9-byte response whose echo also differs is reported as a
\* length error.
C5_Witness ==
    /\ pc = "done"
    /\ call.op = "write_in_multiple_registers"
    /\ Len(response) = 9
    /\ response[2] = WriteInRegisters
    /\ SubSeq(response, 3, 6) # SubSeq(sent[1].data, 1, 4)
    /\ result.exc = "BadResponseLengthException"

\* C6: validation reports the first check that fails, in this order: no data
\* gives NoResponseException; byte 0 other than the device id gives
\* BadResponseException (device id) even with a bad checksum; a non-zero
\* checksum residue gives CRCException even with a wrong function byte; byte
\* 1 equal to the function code passes; byte 1 equal to the function code
\* + 0x80 gives the exception byte 2 selects (0x01, 0x02, 0x03, 0x21, 0x22,
\* 0x23, any other value MX2Exception); any other byte 1 gives
\* BadResponseException (function code).
C6_ValidationOrder ==
    (pc = "done" /\ nreads = 1)
        => LET validation_errors ==
                   {"NoResponseException", "CRCException", "FunctionNotSupportedException",
                    "FunctionNotFoundException", "InvalidDataFormatException",
                    "OutOfBoundsException", "FunctionNotAvailableException",
                    "ReadOnlyTargetException", "MX2Exception"}
               by_code == [c \in 0..255 |->
                   CASE c = 1 -> "FunctionNotSupportedException"
                     [] c = 2 -> "FunctionNotFoundException"
                     [] c = 3 -> "InvalidDataFormatException"
                     [] c = 33 -> "OutOfBoundsException"
                     [] c = 34 -> "FunctionNotAvailableException"
                     [] c = 35 -> "ReadOnlyTargetException"
                     [] OTHER -> "MX2Exception"]
           IN IF response = << >> THEN result.exc = "NoResponseException"
              ELSE IF response[1] # dev_id
              THEN /\ result.exc = "BadResponseException"
                   /\ result.msg = "Data issued for incorrect device ID."
              ELSE IF crc16(response) # << 0, 0 >> THEN result.exc = "CRCException"
              ELSE IF response[2] = sent[1].command
              THEN /\ result.exc \notin validation_errors
                   /\ result.msg \notin {"Data issued for incorrect device ID.",
                                         "Data issued for incorrect function code."}
              ELSE IF response[2] = sent[1].command + 128
              THEN result.exc = by_code[response[3]]
              ELSE /\ result.exc = "BadResponseException"
                   /\ result.msg = "Data issued for incorrect function code."

\* C6 happens: a response for another device with a bad checksum is reported
\* as a device id mismatch.
C6_Witness ==
    /\ pc = "done"
    /\ nreads = 1
    /\ Len(response) >= 2
    /\ response[1] # dev_id
    /\ crc16(response) # << 0, 0 >>
    /\ result.exc = "BadResponseException"
    /\ result.msg = "Data issued for incorrect device ID."

\* C7: for every sampled byte string p, the CRC-16 over p followed by
\* crc16(p), low byte first, is zero; so is the CRC-16 over every frame the
\* engine has written.
C7_FrameChecksumIsZero ==
    /\ crc_stage = "checked" => crc_sum = << 0, 0 >>
    /\ \A k \in 1..Len(tx) : crc16(tx[k]) = << 0, 0 >>

\* C7 happens: a framed string of the longest sampled length was summed.
C7_Witness ==
    /\ crc_stage = "checked"
    /\ Len(crc_data) >= 5
    /\ crc_data[1] = 255
    /\ crc_sum = << 0, 0 >>

\* C8: a send writes the device id, the function code, the payload bytes in
\* order, then the checksum of those bytes, low byte first, a function of
\* (device id, function code, payload) alone; (8, ReadCoilStatus, [0,6,0,5])
\* gives [8,1,0,6,0,5,0x1C,0x91].
C8_FrameLayout ==
    \A k \in 1..Len(tx) :
        LET head == << dev_id, sent[k].command >> \o sent[k].data
            crc == crc_range(crc_init, head, 1, Len(head))
        IN /\ tx[k] = head \o << crc % 256, crc \div 256 >>
           /\ (dev_id = 8 /\ sent[k].command = ReadCoilStatus
                 /\ sent[k].data = << 0, 6, 0, 5 >>)
                  => tx[k] = << 8, 1, 0, 6, 0, 5, 28, 145 >>

\* C8 happens: the frame of the example was written.
C8_Witness ==
    /\ dev_id = 8
    /\ call.op = "read_coil_status"
    /\ tx = << << 8, 1, 0, 6, 0, 5, 28, 145 >> >>

C10_CoilCountOrNamespaceEnd ==
    (/\ pc = "done"
     /\ call.op = "read_coil_status"
     /\ nreads = 1
     /\ call.start_address.enum
     /\ Len(response) = 6 + (call.coil_count \div 8)
     /\ response[1] = dev_id
     /\ crc16(response) = << 0, 0 >>
     /\ response[2] = ReadCoilStatus
     /\ response[3] = Len(response) - 5)
        => /\ result.exc = ""
           /\ Len(result.value) =
                  Min(call.coil_count, Len(Coil) - coil_index(call.start_address) + 1)

C12_WriteValueCheck ==
    (/\ pc # "idle"
     /\ call.op = "write_in_multiple_registers"
     /\ address(call.start_address) \in 1..65535
     /\ Len(call.values) \in 1..16
     /\ LET start == call.start_address
            following == next(start, Len(call.values) - 1)
            start_following == IF Len(call.values) = 1 THEN following
                               ELSE << start >> \o following
        IN isinstance_Register(start)
               => /\ Len(start_following) = Len(call.values)
                  /\ span(start, following[Len(following)]) <= 16)
        => LET start == call.start_address
               values == call.values
               reg(k) == IF k = 1 THEN start ELSE next(start, k - 1)[k - 1]
               w(k) == IF isinstance_Register(start) THEN n_words(reg(k)) ELSE 1
               rejected(k) ==
                   \/ values[k].hi < 0
                   \/ values[k].hi >= 2 ^ (16 * (w(k) - 1))
               big_endian(k) ==
                   [j \in 1..(2 * w(k)) |->
                       LET limb == IF j > 2 * w(k) - 2 THEN values[k].lo ELSE values[k].hi
                       IN IF j % 2 = 1 THEN limb \div 256 ELSE limb % 256]
               RECURSIVE serial(_)
               serial(k) == IF k = 0 THEN << >> ELSE serial(k - 1) \o big_endian(k)
           IN IF \E k \in 1..Len(values) : rejected(k)
              THEN /\ pc = "done"
                   /\ result.exc = "BadParameterException"
                   /\ tx = << >>
                   /\ nreads = 0
              ELSE /\ result.exc # "BadParameterException"
                   /\ is_open => /\ Len(tx) = 1
                                 /\ SubSeq(tx[1], 8, Len(tx[1]) - 2) = serial(Len(values))

C14_FaultMonitorRead ==
    (/\ pc # "idle"
     /\ call.op = "read_fault_monitor"
     /\ call.index \in 1..6
     /\ call.value \in 0..9
     /\ dev_id <= 249
     /\ is_open)
        => LET a == 18 + 10 * (call.index - 1) + call.value - 1
               n == IF call.value \in {2, 6, 8} THEN 2 ELSE 1
           IN /\ sent = << [command |-> ReadHoldingRegister,
                            data |-> << a \div 256, a % 256, 0, n >>] >>
              /\ Len(tx) = 1
              /\ (/\ pc = "done"
                  /\ nreads = 1
                  /\ Len(response) = 5 + 2 * n
                  /\ response[1] = dev_id
                  /\ crc16(response) = << 0, 0 >>
                  /\ response[2] = ReadHoldingRegister)
                     => /\ result.exc = ""
                        /\ result.value =
                               IF n = 1
                               THEN BigInt(0, response[4] * 256 + response[5])
                               ELSE BigInt(response[4] * 256 + response[5],
                                           response[6] * 256 + response[7])

\* C15: in a run of save_settings_to_eeprom the first request sent is the
\* write of 1 to WriteToEEPROM (0x0900) and no later request is; every later
\* request is a read of the coil DataWritingInProgress (0x49) or of the
\* register FaultMonitor1 (0x0012); the step that sends a FaultMonitor1 read
\* has just taken true from a coil read; the step that returns normally has
\* just taken false from a coil read; the step that raises "EEPROM write
\* failed." has just taken 8 from a FaultMonitor1 read.
C15_CommitFrameOrder ==
    [][LET write == [command |-> WriteInHoldingRegister, data |-> << 8, 255, 0, 1 >>]
           poll == [command |-> ReadCoilStatus, data |-> << 0, 72, 0, 1 >>]
           fault == [command |-> ReadHoldingRegister, data |-> << 0, 17, 0, 1 >>]
           coil_read == read_coil_status_response(eeprom_args(ReadCoilStatus),
                                                  dev_id, response')
           took(b) == /\ sent[Len(sent)] = poll
                      /\ nreads' = nreads + 1
                      /\ coil_read.exc = ""
                      /\ Len(coil_read.value) = 1
                      /\ coil_read.value[1].value = b
       IN (call'.op = "save_settings_to_eeprom" /\ sent' # << >>)
              => /\ sent'[1] = write
                 /\ \A k \in 2..Len(sent') : sent'[k] \in {poll, fault}
                 /\ tx' = [k \in 1..Len(sent') |->
                               request(dev_id, sent'[k].command, sent'[k].data)]
                 /\ sent' # sent
                        => /\ sent' \in {<< write >>, Append(sent, poll), Append(sent, fault)}
                           /\ sent' = Append(sent, fault) => took(TRUE)
                 /\ (pc = "wait" /\ pc' = "done" /\ result'.exc = "")
                        => /\ result' = Return(None)
                           /\ took(FALSE)
                 /\ (pc = "wait" /\ pc' = "done" /\ result'.msg = "EEPROM write failed.")
                        => /\ result'.exc = "MX2Exception"
                           /\ sent[Len(sent)] = fault
                           /\ nreads' = nreads + 1
                           /\ Len(response') = 7
                           /\ response'[4] * 256 + response'[5] = 8]_vars

\* C15 happens: the write, a coil read that gave true, a FaultMonitor1 read
\* that gave no EEPROM error and a coil read that gave false; the call
\* returned.
C15_Witness ==
    /\ pc = "done"
    /\ call.op = "save_settings_to_eeprom"
    /\ result = Return(None)
    /\ Len(sent) = 4
    /\ sent[3].command = ReadHoldingRegister
    /\ sent[4].command = ReadCoilStatus
    /\ nreads = 4

\* C16: with the driver's sleeps ending, whenever the device has answered a
\* coil read of save_settings_to_eeprom with a valid reply reporting false,
\* the call returns normally; and whenever it has answered a coil read with
\* a valid reply reporting true, or a FaultMonitor1 read with a valid reply
\* other than the EEPROM error code, the call goes on to its next request
\* (it waits again with nothing received yet), however many requests it has
\* sent before.
C16_CommitTerminates ==
    LET polling == /\ pc = "wait"
                   /\ call.op = "save_settings_to_eeprom"
                   /\ sent[Len(sent)].command = ReadCoilStatus
        reading_fault == /\ pc = "wait"
                         /\ call.op = "save_settings_to_eeprom"
                         /\ sent[Len(sent)].command = ReadHoldingRegister
        coil_reply(b) == /\ Len(rx) = 6
                         /\ rx[1] = dev_id
                         /\ rx[2] = ReadCoilStatus
                         /\ rx[3] = 1
                         /\ (rx[4] % 2 = 1) = b
                         /\ crc16(rx) = << 0, 0 >>
        fault_reply == /\ Len(rx) = 7
                       /\ rx[1] = dev_id
                       /\ rx[2] = ReadHoldingRegister
                       /\ rx[3] = 2
                       /\ rx[4] * 256 + rx[5] # 8
                       /\ crc16(rx) = << 0, 0 >>
        returned == /\ pc = "done"
                    /\ call.op = "save_settings_to_eeprom"
                    /\ result = Return(None)
    IN /\ (polling /\ coil_reply(FALSE)) ~> returned
       /\ (/\ Len(sent) < MaxSends
           /\ \/ polling /\ coil_reply(TRUE)
              \/ reading_fault /\ fault_reply)
              ~> (/\ pc = "wait"
                  /\ call.op = "save_settings_to_eeprom"
                  /\ rx = << >>)

\* C16 happens: the device reported the coil as true, then as false, and the
\* call returned after its second coil read.
C16_Witness ==
    /\ pc = "done"
    /\ call.op = "save_settings_to_eeprom"
    /\ Len(tx) = 4
    /\ response = frame(<< dev_id, ReadCoilStatus, 1, 0 >>)
    /\ result = Return(None)

\* C17: the device id is always in 1..247 or in 250..254; a set_device_id call
\* with a value in those ranges returns with that value as the device id, and
\* a call with any other value raises BadParameterException and leaves the
\* device id as it was.
C17_DeviceIdRange ==
    /\ [](dev_id \in (1..247) \cup (250..254))
    /\ [][(pc = "idle" /\ pc' = "done" /\ call'.op = "set_device_id")
            => IF call'.dev_id \in (1..247) \cup (250..254)
               THEN result' = Return(None) /\ dev_id' = call'.dev_id
               ELSE /\ result'.exc = "BadParameterException"
                    /\ dev_id' = dev_id]_vars

\* C17 happens: with the device id set to 254, a call with 249 was rejected.
C17_Witness ==
    /\ pc = "done"
    /\ call.op = "set_device_id"
    /\ call.dev_id = 249
    /\ result.exc = "BadParameterException"
    /\ dev_id = 254

\* C18: the quiet period is always latency/1000 + 11*3.5/baud rate for the
\* current latency and baud rate, the latency is in 0..1000 and the baud rate
\* is one of the eight allowed values; a set_latency_time or set_baud_rate
\* call is rejected exactly when the latency is outside 0..1000, the baud
\* rate is not allowed or the transport is open for a baud rate change; a
\* rejected call leaves latency, baud rate and quiet period unchanged and an
\* accepted one makes its argument the current value.
C18_QuietPeriod ==
    /\ [](/\ wait_time = quiet_period(latency_time, baudrate)
          /\ latency_time \in 0..1000
          /\ baudrate \in {2400, 4800, 9600, 19200, 38400, 57600, 76800, 115200})
    /\ [][/\ (pc = "idle" /\ pc' = "done" /\ call'.op = "set_latency_time")
              => IF call'.latency_time \in 0..1000
                 THEN result' = Return(None) /\ latency_time' = call'.latency_time
                                             /\ baudrate' = baudrate
                 ELSE result'.exc # "" /\ UNCHANGED config_vars
          /\ (pc = "idle" /\ pc' = "done" /\ call'.op = "set_baud_rate")
              => IF ~is_open /\ call'.baud_rate \in {2400, 4800, 9600, 19200, 38400,
                                                      57600, 76800, 115200}
                 THEN result' = Return(None) /\ baudrate' = call'.baud_rate
                                             /\ latency_time' = latency_time
                 ELSE result'.exc # "" /\ UNCHANGED config_vars]_vars

\* C18 happens: with latency and baud rate both changed from their defaults,
\* a baud rate change was rejected because the transport is open.
C18_Witness ==
    /\ pc = "done"
    /\ call.op = "set_baud_rate"
    /\ call.baud_rate = 2400
    /\ result.exc = "SerialException"
    /\ is_open
    /\ latency_time = 1000
    /\ baudrate = 115200
    /\ wait_time = [num |-> 230477000, den |-> 230400000]

\* C19: the error kind of a finished call alone tells which response failure
\* occurred: a call that ended on a reply for another function code does not
\* carry the kind a reply for another device id gives the same call, and a
\* call that ended on a write echo differing from the sent payload carries
\* neither that kind nor the kind a reply for another function code gives.
C19_DistinctErrorKinds ==
    (pc = "done" /\ sent # << >> /\ response # None /\ Len(response) >= 2) =>
        LET command == sent[Len(sent)].command
            msg == sent[Len(sent)].data
            for_other_device == check_validity(dev_id, command, << 0 >>)
            for_other_function == check_validity(dev_id, command, frame(<< dev_id, 0 >>))
            valid == response[1] = dev_id /\ crc16(response) = << 0, 0 >>
            function_mismatch == /\ valid
                                 /\ response[2] # command
                                 /\ response[2] # command + 128
            content_mismatch == /\ valid
                                /\ response[2] = command
                                /\ command \in {WriteInCoil, WriteInHoldingRegister}
                                /\ Len(response) = 8
                                /\ Slice(response, 2, 6) # Slice(msg, 0, 4)
        IN /\ function_mismatch => result.exc # for_other_device.exc
           /\ content_mismatch => result.exc \notin {for_other_device.exc,
                                                     for_other_function.exc}

\* C19, amended: a reply for another device id, a reply for another function
\* code and a write echo differing from the sent payload all end the call
\* with the one kind BadResponseException, each with a message of its own.
C19_SharedErrorKind ==
    (pc = "done" /\ sent # << >> /\ response # None) =>
        LET command == sent[Len(sent)].command
            msg == sent[Len(sent)].data
            id_mismatch == response[1] # dev_id
            valid == /\ Len(response) >= 2
                     /\ response[1] = dev_id
                     /\ crc16(response) = << 0, 0 >>
            function_mismatch == /\ valid
                                 /\ response[2] # command
                                 /\ response[2] # command + 128
            content_mismatch == /\ valid
                                /\ response[2] = command
                                /\ command \in {WriteInCoil, WriteInHoldingRegister}
                                /\ Len(response) = 8
                                /\ Slice(response, 2, 6) # Slice(msg, 0, 4)
        IN /\ id_mismatch =>
                  result = Raise("BadResponseException",
                                 "Data issued for incorrect device ID.")
           /\ function_mismatch =>
                  result = Raise("BadResponseException",
                                 "Data issued for incorrect function code.")
           /\ content_mismatch =>
                  result = Raise("BadResponseException",
                                 "Response content differs from command content.")

\* C19 happens: a write_in_coil call ended on an echo that differs from what
\* it sent, after the checks of the device id and the function code passed.
C19_Witness ==
    /\ pc = "done"
    /\ call.op = "write_in_coil"
    /\ Len(response) = 8
    /\ response[1] = dev_id
    /\ response[2] = WriteInCoil
    /\ crc16(response) = << 0, 0 >>
    /\ Slice(response, 2, 6) # sent[1].data
    /\ result = Raise("BadResponseException",
                      "Response content differs from command content.")

\* C20: for a coil count in 1..31, read_coil_status ends with
\* BadResponseLengthException on a reply that passed the checks of device id,
\* checksum and function code and whose byte count names its status bytes
\* exactly when the reply is not 5 + ceil(coil_count / 8) bytes long.
C20_CoilReplyLength ==
    (/\ pc = "done"
     /\ call.op = "read_coil_status"
     /\ sent # << >>
     /\ response # None
     /\ check_validity(dev_id, ReadCoilStatus, response).exc = ""
     /\ Len(response) >= 5
     /\ response[3] = Len(response) - 5
     /\ call.coil_count \in 1..31)
        => (result.exc = "BadResponseLengthException"
               <=> Len(response) # 5 + (call.coil_count + 7) \div 8)

C22_NextAscending ==
    (pure_result # Pending /\ pure_call.fn \in {"Coil.next", "Register.next"}
                           /\ pure_call.n_items >= 1) =>
        LET e == pure_call.self
            n == pure_call.n_items
            coil == pure_call.fn = "Coil.next"
            addr(x) == IF coil THEN x.v ELSE address(x)
            declared == IF coil THEN Len(Coil) ELSE Len(members(e.cls))
            index == IF coil THEN coil_index(e) ELSE e.v
            entity(i) == IF coil THEN CoilMember(Coil[i]) ELSE Member(e.cls, i)
            out == pure_result.value
        IN IF declared - index < n
           THEN pure_result.exc # ""
           ELSE /\ pure_result.exc = ""
                /\ Len(out) = n
                /\ \A k \in 1..Len(out) :
                       /\ out[k] = entity(index + k)
                       /\ addr(out[k]) > addr(IF k = 1 THEN e ELSE out[k - 1])

\* C23: a register compares by its address alone: a == b exactly when the
\* addresses are equal, whatever the widths, a == k for a plain integer k
\* exactly when a.address = k, <=, <, >, >= compare the addresses, and
\* a <= b together with a >= b gives a == b.
C23_CompareByAddress ==
    (pure_result # Pending /\ pure_call.fn = "Register.compare") =>
        LET a == pure_call.self
            b == pure_call.other
            other == IF "address" \in DOMAIN b THEN b.address ELSE b.v
            got == pure_result.value
        IN /\ got.eq <=> a.address = other
           /\ got.le <=> a.address <= other
           /\ got.lt <=> a.address < other
           /\ got.gt <=> a.address > other
           /\ got.ge <=> a.address >= other
           /\ (got.le /\ got.ge) => got.eq

\* C24: a call of an operation other than save_settings_to_eeprom, on an
\* open port with a device id up to 249, that was not refused for its
\* arguments (BadParameterException) has written exactly one frame and read
\* nothing while it waits; the next step it takes is one read of the
\* receive buffer, no earlier than the send time plus the quiet period,
\* which ends the call whatever was read, with no further write.
C24_OneSendOneRead ==
    /\ []((/\ pc \in {"wait", "done"}
           /\ call.op \notin {"open", "close", "set_device_id", "set_baud_rate",
                               "set_latency_time", "save_settings_to_eeprom"}
           /\ is_open
           /\ dev_id <= 249
           /\ result.exc # "BadParameterException")
             => /\ Len(tx) = 1
                /\ nreads = (IF pc = "wait" THEN 0 ELSE 1)
                /\ pc = "done" => now >= last_req_time + WaitTicks)
    /\ [][(/\ pc = "wait"
            /\ call.op # "save_settings_to_eeprom"
            /\ << pc, nreads, tx, sent, now >>' # << pc, nreads, tx, sent, now >>)
             => /\ pc' = "done"
                /\ nreads' = nreads + 1
                /\ response' = read(rx)
                /\ rx' = << >>
                /\ now' >= last_req_time + WaitTicks
                /\ UNCHANGED << tx, sent, call, last_req_time >>]_vars

\* C25: a save_settings_to_eeprom call on an open port with a device id up
\* to 249 that has received no byte (nothing read but empty buffers, nothing
\* waiting) is still waiting: it has neither returned nor raised.
C25_SpinsWhenUnanswered ==
    (/\ call.op = "save_settings_to_eeprom"
     /\ is_open
     /\ dev_id <= 249
     /\ nreads <= 1
     /\ response = None
     /\ rx = << >>)
        => pc = "wait" /\ result = Pending

\* C25, amended: a save_settings_to_eeprom call that finds the receive
\* buffer empty at the read after any of its requests ends there with
\* NoResponseException, with no further request; for a device that never
\* answers that is the read after the first request, the write of 1 to
\* WriteToEEPROM.
C25_UnansweredCommitRaises ==
    /\ []((/\ pc = "done"
           /\ call.op = "save_settings_to_eeprom"
           /\ nreads >= 1
           /\ response = None)
             => /\ result = Raise("NoResponseException", "No data.")
                /\ Len(tx) = nreads)
    /\ [][(/\ pc = "wait"
            /\ call.op = "save_settings_to_eeprom"
            /\ rx = << >>
            /\ nreads' # nreads)
             => /\ pc' = "done"
                /\ result' = Raise("NoResponseException", "No data.")
                /\ nreads' = nreads + 1
                /\ UNCHANGED << tx, sent >>]_vars

\* C25 happens: the write of the call got no answer and the call ended with
\* NoResponseException after its one frame and one read.
C25_Witness ==
    /\ pc = "done"
    /\ call.op = "save_settings_to_eeprom"
    /\ dev_id <= 249
    /\ Len(tx) = 1
    /\ nreads = 1
    /\ response = None
    /\ result = Raise("NoResponseException", "No data.")

\* C26: whenever a request is written that a read will follow, nothing is
\* left in the receive buffer, so that the bytes the read takes as the
\* response all reached the transport after the request was written.
C26_ResponseFollowsRequest ==
    [][(Len(tx') > Len(tx) /\ pc' = "wait") => rx' = << >>]_vars

\* C27: each value read_coil_status returns belongs to a declared coil and
\* is the bit of the decoded reply (data bytes from the highest index down,
\* each least-significant bit first) at the offset of that coil's address
\* from the start address, also when undeclared addresses lie in the range:
\* their bits go to no coil.
C27_CoilAtItsOffset ==
    (/\ pc = "done"
     /\ call.op = "read_coil_status"
     /\ nreads = 1
     /\ result.exc = ""
     /\ response[3] = Len(response) - 5)
        => \A k \in 1..Len(result.value) :
               LET j == result.value[k].coil - call.start_address.v
               IN /\ coil_contains(result.value[k].coil) # None
                  /\ j >= 0
                  /\ j < 8 * response[3]
                  /\ result.value[k].value
                        = ((response[3 + response[3] - (j \div 8)] \div (2 ^ (j % 8))) % 2 = 1)

\* C28: read_registers(start, n) from a declared register, given a valid
\* reply of the expected length, returns n values, for start and the n-1
\* registers declared after it, each made of the reply's words at the word
\* offset of its register's address from the start address; the words of
\* undeclared addresses in between go to no register.
C28_RegisterAtItsOffset ==
    (/\ pc = "done"
     /\ call.op = "read_registers"
     /\ nreads = 1
     /\ isinstance_Register(call.start_address)
     /\ Len(response) = 5 + 2 * call.word_count
     /\ response[1] = dev_id
     /\ crc16(response) = << 0, 0 >>
     /\ response[2] = ReadHoldingRegister)
        => LET start == call.start_address
               word(j) == response[2 * j + 2] * 256 + response[2 * j + 3]
               regs == << start >> \o next(start, call.register_count - 1)
           IN /\ result.exc = ""
              /\ Len(result.value) = call.register_count
              /\ \A k \in 1..Len(result.value) :
                     LET reg == result.value[k].register
                         first == address(reg) - address(start) + 1
                     IN /\ reg = regs[k]
                        /\ result.value[k].value
                              = IF n_words(reg) = 1 THEN BigInt(0, word(first))
                                ELSE BigInt(word(first), word(first + 1))

\* C29: in every WriteInRegisters and ReadWriteRegisters frame written, the
\* byte-count field of the write part equals the number of data bytes that
\* follow it (up to the checksum) and twice the write word-count field.
C29_WriteByteCount ==
    \A k \in 1..Len(tx) :
        LET f == tx[k]
            at == IF f[2] = WriteInRegisters THEN 7 ELSE 11
        IN f[2] \in {WriteInRegisters, ReadWriteRegisters}
             => /\ f[at] = Len(f) - at - 2
                /\ f[at] = 2 * f[at - 1]

\* C30: the data bytes of every write_in_multiple_coils frame written, read
\* back the way read_coil_status reads a reply (bytes from the highest index
\* down, each least-significant bit first) and cut to the length of the list,
\* give the list of booleans that was passed.
C30_PackingInvertsDecoding ==
    (/\ call.op = "write_in_multiple_coils"
     /\ tx # << >>)
        => LET f == tx[1]
               reply == << f[1], ReadCoilStatus, f[7] >> \o SubSeq(f, 8, Len(f) - 2)
           IN SubSeq(coil_bits(reply, 3 + f[7]), 1, Len(call.values)) = call.values

====
